---- MODULE Spec2Model ----
(***************************************************************************)
(* A model of the parallel-loop statement of the Bob interpreter           *)
(* (src/src/Interpreter.h, Interpreter::executeStmt, ParallelStmt branch). *)
(*                                                                         *)
(* One behaviour is one execution of a statement                           *)
(*     parallel (init; condition; increment) body                          *)
(* by the calling thread: Setup (lines 602-650), Decide (652-667, 718),    *)
(* then either the sequential while loop (656-664) or the worker threads   *)
(* (669-716).  The header and the body's behaviour are inputs drawn in     *)
(* Init.  Numbers are doubles in the program; the model draws integral     *)
(* values, on which the program's arithmetic is exact.                     *)
(***************************************************************************)
EXTENDS Integers, Sequences, FiniteSets, TLC

(***************************************************************************)
(* Bounds of the model and constants of the program.                       *)
(***************************************************************************)
\* std::thread::hardware_concurrency() as seen by the constructor
NumThreads == 2
\* how far past the threshold the drawn loop bounds go
MaxOver == 1
\* cap on the body executions of one sequential while loop (a loop whose
\* condition never turns false runs forever in the program)
MaxSeqIters == 21
\* number of calls of atomic built-ins the threads make in one behaviour
MaxCalls == 4
\* number of Environment objects in use at a time
MaxScopes == 3
\* number of array and string literals a session evaluates
MaxArrays == 2
\* number of elements of an array or characters of a string
MaxLen == 2
\* number of top-level statements of one execute() call
MaxStmts == 3
\* number of times a worker runs the body x += 1
MaxUpdates == 2
\* totalOps < 20 selects the sequential path
Threshold == 20

Workers == 1..NumThreads

Min(a, b) == IF a < b THEN a ELSE b
Abs(a) == IF a < 0 THEN -a ELSE a

\* static_cast<int>(a / b) for integral doubles a, b with b # 0:
\* the quotient truncated toward zero
TruncDiv(a, b) ==
    IF (a < 0) = (b < 0) THEN Abs(a) \div Abs(b) ELSE -(Abs(a) \div Abs(b))

(***************************************************************************)
(* Error messages.  what() of a RuntimeError is its message string; kind   *)
(* names the throw site, at the induction value the body failed with.      *)
(***************************************************************************)
NoMsg == [kind |-> "", at |-> 0]
NoVarInitMsg == [kind |-> "Parallel for requires a variable initializer", at |-> 0]
TooComplexMsg == [kind |-> "Parallel loop too complex for automatic parallelization", at |-> 0]
BodyMsg(v) == [kind |-> "body", at |-> v]

(***************************************************************************)
(* Bags of induction values (the values the body was run with).            *)
(***************************************************************************)
EmptyValBag == <<>>
BagAdd(b, v) ==
    IF v \in DOMAIN b THEN [b EXCEPT ![v] = @ + 1] ELSE b @@ (v :> 1)
RECURSIVE SumOver(_, _)
SumOver(b, S) ==
    IF S = {} THEN 0
    ELSE LET v == CHOOSE x \in S : TRUE
         IN b[v] + SumOver(b, S \ {v})
BagSize(b) == SumOver(b, DOMAIN b)

(***************************************************************************)
(* The statement's header as the parser builds it                          *)
(* (Parser::parallelStatement): initializer, condition, increment.         *)
(*   init    "var"  : VarStmt  var i = start                               *)
(*           "expr" : ExprStmt j = start   (an assignment, no declaration) *)
(*           "none" : no initializer                                       *)
(*   cond    "lt"/"le"/"gt" : BinaryExpr lhs op rhs; "lit" : a literal     *)
(*           true; "none" : no condition.  rhs is a number literal when    *)
(*           rhsNum, otherwise a string literal                            *)
(*   inc     "postinc"/"postdec" : PostfixExpr incName++ / incName--       *)
(*           "pluseq"/"minuseq"/"stareq" : CompoundAssignExpr by incVal    *)
(*           "assign" : AssignmentExpr incName = incName + incVal          *)
(*           "none" : no increment                                         *)
(* j is a variable of the enclosing scope, bound to 0 before the loop.     *)
(***************************************************************************)
Hdr(init, start, cond, lhs, rhsNum, rhs, inc, incName, incVal) ==
    [init |-> init, start |-> start, cond |-> cond, lhs |-> lhs,
     rhsNum |-> rhsNum, rhs |-> rhs, inc |-> inc, incName |-> incName,
     incVal |-> incVal]

Starts == {0, Threshold + MaxOver}
Bounds == {0, Threshold - 1, Threshold + MaxOver}
Steps == {<<"postinc", 1>>, <<"postdec", 1>>, <<"pluseq", 2>>,
          <<"pluseq", 0>>}

\* headers of the form the statement is meant for
PlainHeaders ==
    {Hdr("var", s, c, "i", TRUE, b, st[1], "i", st[2]) :
        s \in Starts, c \in {"lt", "le"}, b \in Bounds, st \in Steps}

\* a step of 2 over a span the step does not divide
WideHeaders ==
    {Hdr("var", 0, "lt", "i", TRUE, 2 * Threshold + MaxOver, "pluseq", "i", 2)}

\* the header  var i = 0; i < b; i++  with one part replaced
InitVariants ==
    {Hdr(k, 0, "lt", "i", TRUE, Threshold, "postinc", "i", 1) :
        k \in {"expr", "none"}}
CondVariants ==
    {Hdr("var", 0, c, "i", TRUE, Threshold, "postinc", "i", 1) :
        c \in {"gt", "lit", "none"}}
    \cup {Hdr("var", 0, "lt", "j", TRUE, b, "postinc", "i", 1) :
        b \in {Threshold - 1, Threshold}}
    \cup {Hdr("var", 0, c, "i", FALSE, 0, "postinc", "i", 1) :
        c \in {"lt", "le"}}
IncVariants ==
    {Hdr("var", 0, "lt", "i", TRUE, Threshold - 1, k[1], k[2], k[3]) :
        k \in {<<"none", "i", 0>>, <<"postinc", "j", 1>>,
               <<"stareq", "i", 2>>, <<"assign", "i", 1>>,
               <<"minuseq", "i", 1>>}}
    \cup {Hdr("var", 0, "lt", "i", TRUE, Threshold, k[1], k[2], k[3]) :
        k \in {<<"none", "i", 0>>, <<"stareq", "i", 2>>}}

Headers ==
    PlainHeaders \cup WideHeaders \cup InitVariants \cup CondVariants
    \cup IncVariants

\* the induction values on which the body raises a runtime error: the body
\* never fails, or it fails on each of two values
FailCands == {1, 2}
FailSets == {{}, FailCands}

\* the body assigns to the induction variable, i = i + 100, on the
\* iterations it enters with one of these values
WriteVals == {3}
Written(v) == v + 100

\* the enclosing scope binds a variable with the induction variable's name
EnclosingI == 50

VARIABLES
    hdr,            \* the statement's header
    failVals,       \* the body fails when run with an induction value in it
    bodyThrows,     \* the class of the exception the body throws then
    pc,             \* position of the calling thread
    path,           \* "none" | "seq" | "par": the path Decide took
    environment,    \* Interpreter::environment of the calling thread
    outerJ,         \* value of j in the enclosing scope
    prevI,          \* value of i in the enclosing scope prevEnv
    loopI,          \* value of i in loopEnv, or "undef"
    seqI,           \* value of i in seqEnv, or "undef"
    varName, startVal, endVal, stepVal, validRange, totalOps,
    seqIters,       \* body executions of the sequential loop so far
    seqTrace,       \* induction values the sequential loop entered the body
                    \* with, in the order of the entries
    boundEvals,     \* number of times the right operand of the condition
                    \* was evaluated
    initRuns,       \* number of times the initializer was executed
    raised,         \* message of the RuntimeError thrown to the caller
    threads,        \* number of worker threads spawned
    joined,         \* number of worker threads joined
    wpc,            \* position of each worker thread
    widx,           \* idx of each worker's current iteration (0 outside one)
    iterI,          \* the table of the iterEnv a worker made: <<v>> when it
                    \* binds i to v, <<>> when there is no such object
    sharedCounter, hasError, errorMsg, errorMutex,
    started,        \* idx -> number of times a worker started iteration idx
    finished,       \* idx -> number of times iteration idx ran to its end
    ranVals,        \* bag of induction values the body completed with
    thrown,         \* messages of the errors the body has raised
    firstFault,     \* message of the first fault a worker recorded
    sawStop,        \* workers that read hasError as true in the loop test
    lateDone        \* an iteration ran to its end while hasError was set

VARIABLES
    cpc,            \* position of each worker in the body x += 1
    currentVal,     \* CompoundAssignExpr's currentVal of each worker
    envMutex,       \* Environment::mutex of the scope that binds x: 0, or
                    \* the worker that holds it
    iterMutex,      \* Environment::mutex of each worker's iterEnv: whether
                    \* the worker holds it
    updates,        \* number of times each worker has run the body
    written         \* the values the workers have assigned to x

(***************************************************************************)
(* The atomic built-ins (Interpreter.h lines 194-273): their state.        *)
(***************************************************************************)
\* the names the calls are made with; a table entry is <<>> when the name
\* has no entry and <<v>> when it is bound to v
RegNames == {"x", "y"}
NoEntry == <<>>

\* the calls the threads make: the built-in, its name argument and its
\* number arguments
Call(op, name, val, expected) ==
    [op |-> op, name |-> name, val |-> val, expected |-> expected, tmp |-> 0]
NoCall == Call("none", "", 0, 0)
AtomicCalls ==
    UNION {{Call("store", n, 5, 0), Call("load", n, 0, 0),
            Call("add", n, 2, 0), Call("sub", n, 2, 0),
            Call("inc", n, 1, 0), Call("dec", n, 1, 0),
            Call("xchg", n, 7, 0),
            Call("cas", n, 6, 5), Call("cas", n, 1, 0)} : n \in RegNames}

\* the built-ins that read the register, change it and mirror the new value
AddOps == {"add", "inc"}
SubOps == {"sub", "dec"}
UpdateOps == AddOps \cup SubOps \cup {"xchg", "cas"}

\* what a call has returned: no value (Nil or an exception) or one value
NoRet == [op |-> "none", name |-> "", ret |-> <<>>, failed |-> FALSE]

VARIABLES
    atomicVars,     \* Interpreter::atomicVars: name -> entry
    globalVals,     \* the table of the global scope, globals->values
    atomicMutex,    \* Interpreter::atomicMutex: 0, or the thread that holds it
    acall,          \* the built-in call each thread is executing
    apc,            \* position of each thread in its call
    calls,          \* number of calls started
    lastRet,        \* the call that ended last and what it returned
    atomWritten,    \* names whose register a built-in has written
    stored,         \* name -> <<v>> when atomic_store wrote v and only
                    \* atomic_add / atomic_inc wrote the register since
    incSum,         \* name -> sum of the increments of these calls
    incCount        \* name -> number of these calls

atomVars == <<atomicVars, globalVals, atomicMutex, acall, apc, calls,
              lastRet, atomWritten, stored, incSum, incCount>>

\* a session in which no atomic built-in has been called
AtomicIdle ==
    /\ atomicVars = [n \in RegNames |-> NoEntry]
    /\ globalVals = [n \in RegNames |-> NoEntry]
    /\ atomicMutex = 0
    /\ acall = [w \in Workers |-> NoCall]
    /\ apc = [w \in Workers |-> "idle"]
    /\ calls = 0
    /\ lastRet = NoRet
    /\ atomWritten = {}
    /\ stored = [n \in RegNames |-> NoEntry]
    /\ incSum = [n \in RegNames |-> 0]
    /\ incCount = [n \in RegNames |-> 0]

(***************************************************************************)
(* The scope chain and the evaluator's current scope: their state.         *)
(***************************************************************************)
\* the names of the program: a variable, a function, and a name that
\* is also the name of a built-in function
VarNames == {"x"}
FunNames == {"f"}
BuiltinNames == {"abs"}
Names == VarNames \cup FunNames \cup BuiltinNames
Vals == {1, 2}

\* values (Value.h): a number, or a function with its captured scope and
\* the number of its parameters; a function's parameter is named x
Number(k) == [type |-> "NUMBER", num |-> k, closure |-> 0, arity |-> 0]
Function(c, a) == [type |-> "FUNCTION", num |-> 0, closure |-> c, arity |-> a]
Nil == [type |-> "NIL", num |-> 0, closure |-> 0, arity |-> 0]

\* an Environment object: its enclosing scope (0: nullptr) and its table
Scope(enc) == [enclosing |-> enc, values |-> [n \in Names |-> NoEntry]]

\* a step of the evaluator or a call of a method of Environment: what it
\* was, the name and the value it was made with or returned, whether it
\* threw, the scope it started from, the scopes before it, and what the
\* activation of executeBlock it ended had noted
Op(op, name, val, failed, from) ==
    [op |-> op, name |-> name, val |-> val, failed |-> failed, from |-> from,
     before |-> <<>>, noted |-> <<>>]
NoOp == Op("none", "", NoEntry, FALSE, 0)

VARIABLES
    scopes,         \* the Environment objects in use; scopes[1] is
                    \* Interpreter::globals
    current,        \* Interpreter::environment: an index of scopes
    frames,         \* the activations of executeBlock, innermost last
    mode,           \* "run", or the exception in flight: "error", "return"
    retValue,       \* ReturnException::value of the exception in flight
    lastOp,         \* the step taken last
    builtins,       \* Interpreter::builtins: the names it has entries for
    prog,           \* the statements of the execute() call in progress
    pos,            \* the statement execute() is at; 0 outside execute()
    trace,          \* the statements that call has run, and how they ended
    made,           \* the bindings the statements run so far have left
    arrays,         \* the arrays and strings the values refer to
    shares          \* the pairs of names declared as copies of each other

restVars == <<builtins, prog, pos, trace, made, arrays, shares>>
evalVars == <<scopes, current, frames, mode, retValue, lastOp, restVars>>

\* a new interpreter (lines 740-745)
EvalIdle ==
    /\ scopes = <<Scope(0)>>
    /\ current = 1
    /\ frames = <<>>
    /\ mode = "run"
    /\ retValue = Nil
    /\ lastOp = NoOp
    /\ builtins = BuiltinNames
    /\ prog = <<>>
    /\ pos = 0
    /\ trace = <<>>
    /\ made = [n \in Names |-> NoEntry]
    /\ arrays = <<>>
    /\ shares = {}

raceVars == <<cpc, currentVal, envMutex, iterMutex, updates, written>>

stmtVars == <<hdr, failVals, bodyThrows, pc, path, environment, outerJ, prevI, loopI, seqI,
             varName, startVal, endVal, stepVal, validRange, totalOps,
             seqIters, seqTrace, boundEvals, initRuns, raised, threads,
             joined, wpc, widx, iterI, sharedCounter,
             hasError, errorMsg, errorMutex, started, finished, ranVals,
             thrown, firstFault, sawStop, lateDone>>
parVars == <<stmtVars, raceVars>>

vars == <<parVars, atomVars, evalVars>>

\* the statement, and the state its execution leaves alone
hdrVars == <<hdr, failVals, bodyThrows, atomVars, evalVars, raceVars>>
setupVars == <<varName, startVal, endVal, stepVal, validRange>>
seqVars == <<seqI, seqIters, seqTrace, boundEvals, initRuns>>
workerVars == <<wpc, widx, iterI, sharedCounter, hasError, errorMsg, errorMutex,
                started, finished, thrown, firstFault, sawStop, lateDone>>

Init ==
    /\ cpc = [w \in Workers |-> "get"]
    /\ currentVal = [w \in Workers |-> 0]
    /\ envMutex = 0
    /\ iterMutex = [w \in Workers |-> FALSE]
    /\ updates = [w \in Workers |-> 0]
    /\ written = {}
    /\ hdr \in Headers
    /\ failVals \in FailSets
    /\ bodyThrows \in IF failVals = {} THEN {"RuntimeError"}
                      ELSE {"RuntimeError", "ReturnException"}
    /\ pc = "setup"
    /\ path = "none"
    /\ environment = "prevEnv"
    /\ outerJ = 0
    /\ prevI = EnclosingI
    /\ loopI = "undef"
    /\ seqI = "undef"
    /\ varName = ""
    /\ startVal = 0
    /\ endVal = 0
    /\ stepVal = 1
    /\ validRange = FALSE
    /\ totalOps = 0
    /\ seqIters = 0
    /\ seqTrace = <<>>
    /\ boundEvals = 0
    /\ initRuns = 0
    /\ raised = NoMsg
    /\ threads = 0
    /\ joined = 0
    /\ wpc = [w \in Workers |-> "unspawned"]
    /\ widx = [w \in Workers |-> 0]
    /\ iterI = [w \in Workers |-> <<>>]
    /\ sharedCounter = 0
    /\ hasError = FALSE
    /\ errorMsg = NoMsg
    /\ errorMutex = 0
    /\ started = <<>>
    /\ finished = <<>>
    /\ ranVals = EmptyValBag
    /\ thrown = {}
    /\ firstFault = NoMsg
    /\ sawStop = {}
    /\ lateDone = FALSE
    /\ AtomicIdle
    /\ EvalIdle

(***************************************************************************)
(* Setup: Interpreter.h lines 602-650.                                     *)
(***************************************************************************)
\* lines 627-636: the condition gives a range when it is a BinaryExpr with
\* < or <= whose right operand evaluates to a number; the left operand is
\* not looked at
RecognisedRange(h) == h.cond \in {"lt", "le"} /\ h.rhsNum

\* lines 631-632
RecognisedEnd(h) == IF h.cond = "le" THEN h.rhs + 1 ELSE h.rhs

\* lines 605, 638-648: stepVal starts at 1 and is replaced only by a
\* PostfixExpr (whatever its variable) or a += / -= CompoundAssignExpr
\* (whatever its variable) whose value is a number
DerivedStep(h) ==
    CASE h.inc = "postinc" -> 1
      [] h.inc = "postdec" -> -1
      [] h.inc = "pluseq" -> h.incVal
      [] h.inc = "minuseq" -> -h.incVal
      [] OTHER -> 1

Setup ==
    /\ pc = "setup"
    /\ loopI' = IF hdr.init = "var" THEN hdr.start ELSE loopI
    /\ outerJ' = IF hdr.init = "expr" THEN hdr.start ELSE outerJ
    /\ varName' = IF hdr.init = "var" THEN "i" ELSE ""
    /\ startVal' = IF hdr.init = "var" THEN hdr.start ELSE startVal
    /\ IF hdr.init # "var"
       THEN \* line 624: thrown with environment still loopEnv
            /\ raised' = NoVarInitMsg
            /\ pc' = "raised"
            /\ environment' = "loopEnv"
            /\ UNCHANGED <<endVal, stepVal, validRange>>
       ELSE /\ validRange' = RecognisedRange(hdr)
            /\ endVal' = IF RecognisedRange(hdr) THEN RecognisedEnd(hdr) ELSE endVal
            /\ stepVal' = DerivedStep(hdr)
            /\ environment' = "prevEnv"
            /\ pc' = "decide"
            /\ UNCHANGED raised
    \* line 613: the initializer, when there is one; line 629: the right
    \* operand of a < or <= condition
    /\ initRuns' = IF hdr.init # "none" THEN 1 ELSE 0
    /\ boundEvals' = IF hdr.init = "var" /\ hdr.cond \in {"lt", "le"} THEN 1
                     ELSE 0
    /\ UNCHANGED <<hdrVars, prevI, path, seqI, seqIters, seqTrace, totalOps,
                   threads, joined, workerVars, ranVals>>

(***************************************************************************)
(* Decide: lines 652-667 and 718-720.                                      *)
(***************************************************************************)
\* line 653
TotalOps(s, e, st) == TruncDiv(e - s, st)

\* line 655
TakesSequential(n) == n <= 0 \/ n < Threshold

\* line 667
ActualThreads == Min(NumThreads, totalOps)

Decide ==
    /\ pc = "decide"
    /\ IF validRange /\ stepVal # 0
       THEN /\ totalOps' = TotalOps(startVal, endVal, stepVal)
            /\ IF TakesSequential(totalOps')
               THEN pc' = "seq_init" /\ path' = "seq"
               ELSE pc' = "spawn" /\ path' = "par"
            /\ UNCHANGED raised
       ELSE /\ raised' = TooComplexMsg
            /\ pc' = "raised"
            /\ UNCHANGED <<totalOps, path>>
    /\ UNCHANGED <<hdrVars, prevI, environment, outerJ, loopI, setupVars, seqVars,
                   threads, joined, workerVars, ranVals>>

(***************************************************************************)
(* The sequential path: lines 656-664.                                     *)
(***************************************************************************)
\* value of a variable read through seqEnv: i is bound there, j in the
\* enclosing scope
Lookup(name, iv, jv) == IF name = "i" THEN iv ELSE jv

\* line 659: the condition expression evaluated in seqEnv (a < or <=
\* BinaryExpr over numbers on this path)
CondTruthy(h, iv, jv) ==
    IF h.cond = "lt" THEN Lookup(h.lhs, iv, jv) < h.rhs
    ELSE Lookup(h.lhs, iv, jv) <= h.rhs

\* line 661: the new value of the increment expression's variable
IncResult(h, old) ==
    CASE h.inc = "postinc" -> old + 1
      [] h.inc = "postdec" -> old - 1
      [] h.inc = "pluseq" -> old + h.incVal
      [] h.inc = "minuseq" -> old - h.incVal
      [] h.inc = "stareq" -> old * h.incVal
      [] h.inc = "assign" -> old + h.incVal
      [] OTHER -> old

\* lines 656-658: a new scope, and the initializer executed a second time
SeqInit ==
    /\ pc = "seq_init"
    /\ environment' = "seqEnv"
    /\ seqI' = hdr.start
    /\ initRuns' = initRuns + 1
    /\ pc' = "seq_cond"
    /\ UNCHANGED <<hdrVars, prevI, path, outerJ, loopI, setupVars, totalOps,
                   seqIters, seqTrace, boundEvals, raised, threads, joined,
                   workerVars, ranVals>>

\* line 659, and 663-664 when the condition is false
SeqCond ==
    /\ pc = "seq_cond"
    /\ IF CondTruthy(hdr, seqI, outerJ)
       THEN pc' = "seq_body" /\ UNCHANGED environment
       ELSE pc' = "done" /\ environment' = "prevEnv"
    \* evaluateExpr(condition) evaluates both operands of the BinaryExpr
    /\ boundEvals' = IF hdr.cond \in {"lt", "le", "gt"} THEN boundEvals + 1
                     ELSE boundEvals
    /\ UNCHANGED <<hdrVars, prevI, path, outerJ, loopI, setupVars, totalOps,
                   seqI, seqIters, seqTrace, initRuns, raised, threads, joined,
                   workerVars, ranVals>>

\* a variant of the loop that goes on with the next iteration after a
\* failing body
SeqBodyGoesOn ==
    /\ pc = "seq_body"
    /\ seqIters < MaxSeqIters
    /\ seqTrace' = Append(seqTrace, seqI)
    /\ thrown' = IF seqI \in failVals THEN thrown \cup {BodyMsg(seqI)}
                 ELSE thrown
    /\ ranVals' = IF seqI \in failVals THEN ranVals ELSE BagAdd(ranVals, seqI)
    /\ seqIters' = seqIters + 1
    /\ seqI' = IF hdr.incName = "i" THEN IncResult(hdr, seqI) ELSE seqI
    /\ outerJ' = IF hdr.incName = "j" THEN IncResult(hdr, outerJ) ELSE outerJ
    /\ pc' = "seq_cond"
    /\ UNCHANGED <<hdrVars, prevI, path, environment, loopI, setupVars, totalOps,
                   boundEvals, initRuns, raised, threads, joined, wpc, widx, iterI, sharedCounter,
                   hasError, errorMsg, errorMutex, started, finished,
                   firstFault, sawStop, lateDone>>

\* lines 660-661: the body, then the increment expression; a failing body
\* unwinds to the caller at once
SeqBody ==
    /\ pc = "seq_body"
    /\ seqIters < MaxSeqIters
    /\ seqTrace' = Append(seqTrace, seqI)
    /\ IF seqI \in failVals
       THEN /\ thrown' = thrown \cup {BodyMsg(seqI)}
            /\ raised' = BodyMsg(seqI)
            /\ pc' = "raised"
            /\ UNCHANGED <<ranVals, seqI, seqIters, outerJ>>
       ELSE /\ ranVals' = BagAdd(ranVals, seqI)
            /\ seqIters' = seqIters + 1
            /\ seqI' = IF hdr.incName = "i" THEN IncResult(hdr, seqI) ELSE seqI
            /\ outerJ' = IF hdr.incName = "j" THEN IncResult(hdr, outerJ) ELSE outerJ
            /\ pc' = "seq_cond"
            /\ UNCHANGED <<thrown, raised>>
    /\ UNCHANGED <<hdrVars, prevI, path, environment, loopI, setupVars, totalOps,
                   boundEvals, initRuns, threads, joined, wpc, widx, iterI, sharedCounter,
                   hasError, errorMsg, errorMutex, started, finished,
                   firstFault, sawStop, lateDone>>

(***************************************************************************)
(* The parallel path: lines 667-716.                                       *)
(***************************************************************************)
\* a variant that takes the counter's value after the addition
ClaimIndexAfter(c) == c + 1

\* line 691: fetch_add returns the counter's value before the addition
ClaimIndex(c) == c

\* line 692
CurrentI(idx) == startVal + (idx * stepVal)

\* a variant whose range test lets the end value itself through
StillRunningInclusive(currentI) ==
    IF stepVal > 0 THEN currentI <= endVal ELSE currentI >= endVal

\* lines 694-696
StillRunning(currentI) ==
    IF stepVal > 0 THEN currentI < endVal ELSE currentI > endVal

\* a variant that drops the recorded fault
RethrowsNever(flag) == FALSE

\* line 716
Rethrows(flag) == flag

\* a variant in which the workers bind the induction variable in one scope
\* object they all use
IterScopeOfAll(w) == 1

\* line 700: every iteration makes its own Environment object; a worker has
\* at most one of them at a time, so the worker's number names it
IterScope(w) == w

\* Environment::get from the scope the body runs in: iterEnv first, then the
\* enclosing scope
IterGet(w) ==
    IF iterI[IterScope(w)] # <<>> THEN iterI[IterScope(w)][1] ELSE prevI

\* lines 682-713: the calling thread starts the next worker thread
Spawn ==
    /\ pc = "spawn"
    /\ threads < ActualThreads
    /\ threads' = threads + 1
    /\ wpc' = [wpc EXCEPT ![threads + 1] = "check"]
    /\ pc' = IF threads + 1 = ActualThreads THEN "join" ELSE "spawn"
    /\ UNCHANGED <<hdrVars, prevI, path, environment, outerJ, loopI,
                   setupVars, totalOps, seqVars, raised, joined, widx, iterI,
                   sharedCounter, hasError, errorMsg, errorMutex, started,
                   finished, ranVals, thrown, firstFault, sawStop, lateDone>>

\* line 690: the loop test reads the stop flag
WorkerCheck(w) ==
    /\ wpc[w] = "check"
    /\ IF hasError
       THEN /\ wpc' = [wpc EXCEPT ![w] = "exited"]
            /\ sawStop' = sawStop \cup {w}
       ELSE /\ wpc' = [wpc EXCEPT ![w] = "claim"]
            /\ UNCHANGED sawStop
    /\ UNCHANGED <<hdrVars, prevI, pc, path, environment, outerJ, loopI,
                   setupVars, totalOps, seqVars, raised, threads, joined,
                   widx, iterI, sharedCounter, hasError, errorMsg,
                   errorMutex, started, finished, ranVals, thrown,
                   firstFault, lateDone>>

\* lines 691-702: claim an index, leave the loop when it is out of range,
\* otherwise bind the induction variable in a fresh scope and enter the body
WorkerClaim(w) ==
    /\ wpc[w] = "claim"
    /\ sharedCounter' = sharedCounter + 1
    /\ LET idx == ClaimIndex(sharedCounter)
       IN IF StillRunning(CurrentI(idx))
          THEN /\ widx' = [widx EXCEPT ![w] = idx]
               /\ iterI' = [iterI EXCEPT ![IterScope(w)] = <<CurrentI(idx)>>]
               /\ started' = BagAdd(started, idx)
               /\ wpc' = [wpc EXCEPT ![w] = "body"]
          ELSE /\ wpc' = [wpc EXCEPT ![w] = "exited"]
               /\ UNCHANGED <<widx, iterI, started>>
    /\ UNCHANGED <<hdrVars, prevI, pc, path, environment, outerJ, loopI,
                   setupVars, totalOps, seqVars, raised, threads, joined,
                   hasError, errorMsg, errorMutex, finished, ranVals, thrown,
                   firstFault, sawStop, lateDone>>

\* the end of an iteration: its index is counted and its scope object is
\* released with the local variables of the loop's round
IterationEnds(w) ==
    /\ finished' = BagAdd(finished, widx[w])
    /\ lateDone' = (lateDone \/ hasError)
    /\ wpc' = [wpc EXCEPT ![w] = "check"]
    /\ widx' = [widx EXCEPT ![w] = 0]

\* a variant of the body step in which a set stop flag cuts the running
\* iteration short
WorkerBodyAbortable(w) ==
    /\ wpc[w] = "body"
    /\ LET v == IterGet(w)
       IN IF v \in failVals
          THEN /\ thrown' = thrown \cup {BodyMsg(v)}
               /\ wpc' = [wpc EXCEPT ![w] = "catch"]
               /\ UNCHANGED <<finished, ranVals, lateDone, widx, iterI>>
          ELSE IF hasError
          THEN /\ wpc' = [wpc EXCEPT ![w] = "exited"]
               /\ widx' = [widx EXCEPT ![w] = 0]
               /\ iterI' = [iterI EXCEPT ![IterScope(w)] = <<>>]
               /\ UNCHANGED <<finished, ranVals, lateDone, thrown>>
          ELSE IF v \in WriteVals
          THEN /\ ranVals' = BagAdd(ranVals, v)
               /\ iterI' = [iterI EXCEPT ![IterScope(w)] = <<Written(v)>>]
               /\ wpc' = [wpc EXCEPT ![w] = "body_end"]
               /\ UNCHANGED <<finished, lateDone, widx, thrown>>
          ELSE /\ ranVals' = BagAdd(ranVals, v)
               /\ iterI' = [iterI EXCEPT ![IterScope(w)] = <<>>]
               /\ IterationEnds(w)
               /\ UNCHANGED thrown
    /\ UNCHANGED <<hdrVars, prevI, pc, path, environment, outerJ, loopI,
                   setupVars, totalOps, seqVars, raised, threads, joined,
                   sharedCounter, hasError, errorMsg, errorMutex, started,
                   firstFault, sawStop>>

\* line 704: the body reads the induction variable and runs to its end or to
\* the error it raises; the stop flag is not read while it runs. On the
\* iterations of WriteVals the body goes on to assign to the induction
\* variable: Environment::assign writes the innermost scope that binds it
WorkerBody(w) ==
    /\ wpc[w] = "body"
    /\ LET v == IterGet(w)
       IN IF v \in failVals
          THEN /\ thrown' = thrown \cup {BodyMsg(v)}
               /\ wpc' = [wpc EXCEPT ![w] = "catch"]
               /\ UNCHANGED <<finished, ranVals, lateDone, widx, iterI,
                              prevI>>
          ELSE IF v \in WriteVals
          THEN /\ ranVals' = BagAdd(ranVals, v)
               /\ IF iterI[IterScope(w)] # <<>>
                  THEN /\ iterI' = [iterI EXCEPT ![IterScope(w)] = <<Written(v)>>]
                       /\ UNCHANGED prevI
                  ELSE /\ prevI' = Written(v)
                       /\ UNCHANGED iterI
               /\ wpc' = [wpc EXCEPT ![w] = "body_end"]
               /\ UNCHANGED <<finished, lateDone, widx, thrown>>
          ELSE /\ ranVals' = BagAdd(ranVals, v)
               /\ iterI' = [iterI EXCEPT ![IterScope(w)] = <<>>]
               /\ IterationEnds(w)
               /\ UNCHANGED <<thrown, prevI>>
    /\ UNCHANGED <<hdrVars, pc, path, environment, outerJ, loopI,
                   setupVars, totalOps, seqVars, raised, threads, joined,
                   sharedCounter, hasError, errorMsg, errorMutex, started,
                   firstFault, sawStop>>

\* line 704, the rest of a body that assigned to the induction variable
WorkerBodyEnd(w) ==
    /\ wpc[w] = "body_end"
    /\ iterI' = [iterI EXCEPT ![IterScope(w)] = <<>>]
    /\ IterationEnds(w)
    /\ UNCHANGED <<hdrVars, prevI, pc, path, environment, outerJ, loopI,
                   setupVars, totalOps, seqVars, raised, threads, joined,
                   sharedCounter, hasError, errorMsg, errorMutex, started,
                   ranVals, thrown, firstFault, sawStop>>

\* lines 707-709: the handler takes errorMutex and sets the stop flag
WorkerCatch(w) ==
    /\ wpc[w] = "catch"
    /\ errorMutex = 0
    /\ errorMutex' = w
    /\ hasError' = TRUE
    /\ wpc' = [wpc EXCEPT ![w] = "record"]
    /\ UNCHANGED <<hdrVars, prevI, pc, path, environment, outerJ, loopI,
                   setupVars, totalOps, seqVars, raised, threads, joined,
                   widx, iterI, sharedCounter, errorMsg, started, finished,
                   ranVals, thrown, firstFault, sawStop, lateDone>>

\* lines 710-711: the handler stores the message, releases errorMutex and
\* the thread ends
WorkerRecord(w) ==
    /\ wpc[w] = "record"
    /\ errorMutex = w
    /\ errorMsg' = BodyMsg(CurrentI(widx[w]))
    /\ firstFault' = IF firstFault = NoMsg THEN BodyMsg(CurrentI(widx[w]))
                     ELSE firstFault
    /\ errorMutex' = 0
    /\ wpc' = [wpc EXCEPT ![w] = "exited"]
    /\ widx' = [widx EXCEPT ![w] = 0]
    /\ iterI' = [iterI EXCEPT ![IterScope(w)] = <<>>]
    /\ UNCHANGED <<hdrVars, prevI, pc, path, environment, outerJ, loopI,
                   setupVars, totalOps, seqVars, raised, threads, joined,
                   sharedCounter, hasError, started, finished, ranVals,
                   thrown, sawStop, lateDone>>

\* the class of the exception that leaves the statement: the sequential
\* path has no handler (lines 656-663), so what the body threw leaves as it
\* is; line 716 throws a RuntimeError, as do lines 624 and 719
LeavesAs ==
    IF path = "seq" /\ raised.kind = "body" THEN bodyThrows
    ELSE "RuntimeError"

\* a variant of the join that does not wait for the thread to end
JoinNoWait ==
    /\ pc = "join"
    /\ joined < threads
    /\ joined' = joined + 1
    /\ UNCHANGED <<hdrVars, prevI, pc, path, environment, outerJ, loopI, setupVars,
                   totalOps, seqVars, raised, threads, workerVars, ranVals>>

\* line 715: join the threads in the order they were started
Join ==
    /\ pc = "join"
    /\ joined < threads
    /\ wpc[joined + 1] = "exited"
    /\ joined' = joined + 1
    /\ UNCHANGED <<hdrVars, prevI, pc, path, environment, outerJ, loopI, setupVars,
                   totalOps, seqVars, raised, threads, workerVars, ranVals>>

\* line 716, and the return of line 721
Finish ==
    /\ pc = "join"
    /\ joined = threads
    /\ IF Rethrows(hasError)
       THEN raised' = errorMsg /\ pc' = "raised"
       ELSE pc' = "done" /\ UNCHANGED raised
    /\ UNCHANGED <<hdrVars, prevI, path, environment, outerJ, loopI, setupVars,
                   totalOps, seqVars, threads, joined, workerVars, ranVals>>

Next ==
    \/ Setup
    \/ Decide
    \/ SeqInit
    \/ SeqCond
    \/ SeqBody
    \/ Spawn
    \/ \E w \in Workers : WorkerCheck(w)
    \/ \E w \in Workers : WorkerClaim(w)
    \/ \E w \in Workers : WorkerBody(w)
    \/ \E w \in Workers : WorkerBodyEnd(w)
    \/ \E w \in Workers : WorkerCatch(w)
    \/ \E w \in Workers : WorkerRecord(w)
    \/ Join
    \/ Finish

Spec == Init /\ [][Next]_vars

(***************************************************************************)
(* The atomic built-ins: Interpreter.h lines 194-273.  The threads are the *)
(* workers of parallel statements of one session; every built-in holds     *)
(* atomicMutex from its lock_guard to its return or its exception.         *)
(***************************************************************************)
\* no parallel statement is being executed
ParallelIdle ==
    /\ cpc = [w \in Workers |-> "get"]
    /\ currentVal = [w \in Workers |-> 0]
    /\ envMutex = 0
    /\ iterMutex = [w \in Workers |-> FALSE]
    /\ updates = [w \in Workers |-> 0]
    /\ written = {}
    /\ hdr = Hdr("var", 0, "lt", "i", TRUE, 0, "postinc", "i", 0)
    /\ failVals = {}
    /\ bodyThrows = "RuntimeError"
    /\ pc = "done"
    /\ path = "none"
    /\ environment = "prevEnv"
    /\ outerJ = 0
    /\ prevI = EnclosingI
    /\ loopI = "undef"
    /\ seqI = "undef"
    /\ varName = ""
    /\ startVal = 0
    /\ endVal = 0
    /\ stepVal = 1
    /\ validRange = FALSE
    /\ totalOps = 0
    /\ seqIters = 0
    /\ seqTrace = <<>>
    /\ boundEvals = 0
    /\ initRuns = 0
    /\ raised = NoMsg
    /\ threads = 0
    /\ joined = 0
    /\ wpc = [w \in Workers |-> "unspawned"]
    /\ widx = [w \in Workers |-> 0]
    /\ iterI = [w \in Workers |-> <<>>]
    /\ sharedCounter = 0
    /\ hasError = FALSE
    /\ errorMsg = NoMsg
    /\ errorMutex = 0
    /\ started = <<>>
    /\ finished = <<>>
    /\ ranVals = EmptyValBag
    /\ thrown = {}
    /\ firstFault = NoMsg
    /\ sawStop = {}
    /\ lateDone = FALSE

AtomicInit == ParallelIdle /\ AtomicIdle /\ EvalIdle

\* std::map::operator[] on atomicVars: a missing entry reads as 0
RegRead(n) == IF atomicVars[n] = NoEntry THEN 0 ELSE atomicVars[n][1]

\* the value the built-in writes to the register, from the value it read
NewValue(c) ==
    CASE c.op \in AddOps -> c.tmp + c.val
      [] c.op \in SubOps -> c.tmp - c.val
      [] OTHER -> c.val

\* the value the built-in returns after the mirrored write
ReturnValue(c) ==
    CASE c.op = "store" -> <<>>
      [] c.op = "xchg" -> <<c.tmp>>
      [] c.op = "cas" -> <<TRUE>>
      [] OTHER -> <<NewValue(c)>>

\* the call ends: lock_guard's destructor releases atomicMutex
CallEnds(w, ret, failed) ==
    /\ atomicMutex' = 0
    /\ apc' = [apc EXCEPT ![w] = "idle"]
    /\ acall' = [acall EXCEPT ![w] = NoCall]
    /\ lastRet' = [op |-> acall[w].op, name |-> acall[w].name, ret |-> ret,
                   failed |-> failed]

\* a variant in which a thread enters a built-in without waiting for the
\* lock
AtomicBeginUnlocked(w, c) ==
    /\ apc[w] = "idle"
    /\ cpc[w] = "get"
    /\ calls < MaxCalls
    /\ calls' = calls + 1
    /\ atomicMutex' = w
    /\ acall' = [acall EXCEPT ![w] = c]
    /\ apc' = [apc EXCEPT ![w] = "locked"]
    /\ UNCHANGED <<parVars, evalVars, atomicVars, globalVals, lastRet, atomWritten,
                   stored, incSum, incCount>>

\* a thread that is between two scope operations calls a built-in: the
\* arguments are read and the lock_guard takes atomicMutex (lines 198, 207,
\* 216, 226, 235, 244, 254, 266)
AtomicBegin(w, c) ==
    /\ apc[w] = "idle"
    /\ cpc[w] = "get"
    /\ atomicMutex = 0
    /\ calls < MaxCalls
    /\ calls' = calls + 1
    /\ atomicMutex' = w
    /\ acall' = [acall EXCEPT ![w] = c]
    /\ apc' = [apc EXCEPT ![w] = "locked"]
    /\ UNCHANGED <<parVars, evalVars, atomicVars, globalVals, lastRet, atomWritten,
                   stored, incSum, incCount>>

\* atomic_load, lines 208-209: 0 for a name without an entry
AtomicLoad(w) ==
    /\ apc[w] = "locked"
    /\ acall[w].op = "load"
    /\ CallEnds(w, <<RegRead(acall[w].name)>>, FALSE)
    /\ UNCHANGED <<parVars, evalVars, atomicVars, globalVals, calls, atomWritten,
                   stored, incSum, incCount>>

\* the read of the register by atomicVars[varName] in lines 217, 227, 236,
\* 245, 255 and 267: operator[] makes an entry 0 for a missing name; a cas
\* whose comparison fails returns false
AtomicRead(w) ==
    /\ apc[w] = "locked"
    /\ acall[w].op \in UpdateOps
    /\ LET c == acall[w]
           old == RegRead(c.name)
       IN /\ atomicVars' = [atomicVars EXCEPT ![c.name] = <<old>>]
          /\ IF c.op = "cas" /\ old # c.expected
             THEN CallEnds(w, <<FALSE>>, FALSE)
             ELSE /\ acall' = [acall EXCEPT ![w].tmp = old]
                  /\ apc' = [apc EXCEPT ![w] = "update"]
                  /\ UNCHANGED <<atomicMutex, lastRet>>
    /\ UNCHANGED <<parVars, evalVars, globalVals, calls, atomWritten, stored, incSum,
                   incCount>>

\* the write of the register: line 199 for atomic_store, the second half of
\* += and -= in lines 217, 227, 236, 245, and lines 256 and 268
AtomicWrite(w) ==
    /\ \/ apc[w] = "locked" /\ acall[w].op = "store"
       \/ apc[w] = "update"
    /\ LET c == acall[w]
       IN /\ atomicVars' = [atomicVars EXCEPT ![c.name] = <<NewValue(c)>>]
          /\ atomWritten' = atomWritten \cup {c.name}
          /\ IF c.op \in AddOps
             THEN UNCHANGED <<stored, incSum, incCount>>
             ELSE /\ stored' = [stored EXCEPT ![c.name] = NoEntry]
                  /\ incSum' = [incSum EXCEPT ![c.name] = 0]
                  /\ incCount' = [incCount EXCEPT ![c.name] = 0]
    /\ apc' = [apc EXCEPT ![w] = "mirror"]
    /\ UNCHANGED <<parVars, evalVars, globalVals, atomicMutex, acall, calls, lastRet>>

\* the mirrored write and the return: globals->define for atomic_store
\* (line 200), globals->assign for the others (lines 218, 228, 237, 246,
\* 257, 269), which throws when the global scope does not bind the name.
\* Both take the mutex of the global scope for the time of the write
\* (Environment.h lines 21, 43)
AtomicMirror(w) ==
    /\ apc[w] = "mirror"
    /\ envMutex = 0
    /\ LET c == acall[w]
       IN IF c.op = "store" \/ globalVals[c.name] # NoEntry
          THEN /\ globalVals' = [globalVals EXCEPT
                                    ![c.name] = <<NewValue(c)>>]
               /\ CallEnds(w, ReturnValue(c), FALSE)
               /\ stored' = IF c.op = "store"
                            THEN [stored EXCEPT ![c.name] = <<c.val>>]
                            ELSE stored
               /\ incSum' = IF c.op \in AddOps /\ stored[c.name] # NoEntry
                            THEN [incSum EXCEPT ![c.name] = @ + c.val]
                            ELSE incSum
               /\ incCount' = IF c.op \in AddOps /\ stored[c.name] # NoEntry
                              THEN [incCount EXCEPT ![c.name] = @ + 1]
                              ELSE incCount
          ELSE /\ CallEnds(w, <<>>, TRUE)
               /\ UNCHANGED <<globalVals, stored, incSum, incCount>>
    /\ UNCHANGED <<parVars, evalVars, atomicVars, calls, atomWritten>>

AtomicNext ==
    \/ \E w \in Workers, c \in AtomicCalls :
          AtomicBegin(w, c)
    \/ \E w \in Workers : AtomicLoad(w)
    \/ \E w \in Workers : AtomicRead(w)
    \/ \E w \in Workers : AtomicWrite(w)
    \/ \E w \in Workers : AtomicMirror(w)

AtomicSpec == AtomicInit /\ [][AtomicNext]_vars

(***************************************************************************)
(* The scope chain: Environment.h.  The methods are called on the scopes   *)
(* of a chain of nested scopes with any bindings.                          *)
(***************************************************************************)
\* a variant of the search that prefers the outermost binding
RECURSIVE ResolveOutermost(_, _, _)
ResolveOutermost(h, e, n) ==
    IF e = 0 THEN 0
    ELSE LET outer == ResolveOutermost(h, h[e].enclosing, n)
         IN IF outer # 0 THEN outer
            ELSE IF h[e].values[n] # NoEntry THEN e ELSE 0

\* Environment::get and Environment::assign, lines 25-36 and 41-54: the
\* scope whose table is found to bind the name, searching the own table
\* first and then the enclosing scopes; 0 when the search ends at nullptr
RECURSIVE Resolve(_, _, _)
Resolve(h, e, n) ==
    IF e = 0 THEN 0
    ELSE IF h[e].values[n] # NoEntry THEN e
    ELSE Resolve(h, h[e].enclosing, n)

\* Environment::get: the entry found, NoEntry when it throws
EnvGet(h, e, n) ==
    IF Resolve(h, e, n) = 0 THEN NoEntry ELSE h[Resolve(h, e, n)].values[n]

\* a variant of assign that binds the name in the outermost scope when no
\* scope binds it
EnvAssignCreating(h, e, n, v) ==
    IF Resolve(h, e, n) = 0 THEN [h EXCEPT ![1].values[n] = <<v>>]
    ELSE [h EXCEPT ![Resolve(h, e, n)].values[n] = <<v>>]

\* Environment::assign: the tables after the call (it throws, and changes
\* nothing, when no scope binds the name)
EnvAssign(h, e, n, v) ==
    IF Resolve(h, e, n) = 0 THEN h
    ELSE [h EXCEPT ![Resolve(h, e, n)].values[n] = <<v>>]

\* a variant of define that writes the binding an enclosing scope has
EnvDefineFound(h, e, n, v) ==
    IF Resolve(h, e, n) = 0 THEN [h EXCEPT ![e].values[n] = <<v>>]
    ELSE [h EXCEPT ![Resolve(h, e, n)].values[n] = <<v>>]

\* Environment::define, lines 20-23
EnvDefine(h, e, n, v) == [h EXCEPT ![e].values[n] = <<v>>]

\* the tables a scope can have (the variable unbound or bound to a number,
\* the function's name unbound or bound to a function), and the chains of
\* up to MaxScopes nested scopes: scope 1 is the outermost, scope i + 1 is
\* enclosed by scope i
Entries(n) ==
    IF n \in VarNames THEN {NoEntry} \cup {<<Number(k)>> : k \in Vals}
    ELSE IF n \in FunNames THEN {NoEntry, <<Function(1, 0)>>}
    ELSE {NoEntry}
Tables == {t \in [Names -> UNION {Entries(n) : n \in Names}] :
              \A n \in Names : t[n] \in Entries(n)}
Chains ==
    UNION {{[i \in 1..len |-> [enclosing |-> i - 1, values |-> t[i]]] :
               t \in [1..len -> Tables]} : len \in 1..MaxScopes}

ScopeInit ==
    /\ ParallelIdle /\ AtomicIdle
    /\ scopes \in Chains
    /\ current = 1
    /\ frames = <<>>
    /\ mode = "run"
    /\ retValue = Nil
    /\ lastOp = NoOp
    /\ builtins = BuiltinNames
    /\ prog = <<>>
    /\ pos = 0
    /\ trace = <<>>
    /\ made = [n \in Names |-> NoEntry]
    /\ arrays = <<>>
    /\ shares = {}

Called(op, e, n, val, failed) ==
    [Op(op, n, val, failed, e) EXCEPT !.before = scopes]

\* define(name, value) called on scope e
ScopeDefine(e, n, k) ==
    /\ scopes' = EnvDefine(scopes, e, n, Number(k))
    /\ lastOp' = Called("define", e, n, <<Number(k)>>, FALSE)
    /\ UNCHANGED <<parVars, atomVars, restVars, retValue, current, frames, mode>>

\* assign(name, value) called on scope e
ScopeAssign(e, n, k) ==
    /\ scopes' = EnvAssign(scopes, e, n, Number(k))
    /\ lastOp' = Called("assign", e, n, <<Number(k)>>,
                        Resolve(scopes, e, n) = 0)
    /\ UNCHANGED <<parVars, atomVars, restVars, retValue, current, frames, mode>>

\* get(name) called on scope e
ScopeGet(e, n) ==
    /\ lastOp' = Called("get", e, n, EnvGet(scopes, e, n),
                        EnvGet(scopes, e, n) = NoEntry)
    /\ UNCHANGED <<parVars, atomVars, restVars, retValue, scopes, current, frames, mode>>

ScopeNext ==
    \/ \E e \in DOMAIN scopes, n \in VarNames, k \in Vals :
          ScopeDefine(e, n, k)
    \/ \E e \in DOMAIN scopes, n \in VarNames, k \in Vals :
          ScopeAssign(e, n, k)
    \/ \E e \in DOMAIN scopes, n \in VarNames \cup FunNames :
          ScopeGet(e, n)

ScopeSpec == ScopeInit /\ [][ScopeNext]_vars

(***************************************************************************)
(* The statements and expressions that use the scope chain (Interpreter.h  *)
(* lines 300-318, 493-532, 541-581, 601-625, 724-736), executed by the     *)
(* main thread of a session.                                               *)
(***************************************************************************)
EvalInit == ParallelIdle /\ AtomicIdle /\ EvalIdle

\* an activation of executeBlock: who called it, the saved scope
\* (previous), its scope, the closure of the function called and the scope
\* whose table the function was found in; and what the variable resolved
\* to when it began, whether that binding was assigned since, and whether
\* the block has declared the variable itself
Frame(kind, prev, env, clo, holder) ==
    [kind |-> kind, previous |-> prev, blockEnv |-> env, closure |-> clo,
     definer |-> holder, ret |-> NoEntry, through |-> 0,
     seenScope |-> Resolve(scopes, prev, "x"),
     seenVal |-> EnvGet(scopes, prev, "x"),
     dirty |-> FALSE, redeclared |-> FALSE]

Top == frames[Len(frames)]
Pop == SubSeq(frames, 1, Len(frames) - 1)

\* the Environment objects a shared_ptr of scope e points to
Refs(h, e) ==
    {h[e].enclosing} \cup
    {h[e].values[n][1].closure : n \in {m \in Names : h[e].values[m] # NoEntry}}

RECURSIVE Reachable(_, _, _)
Reachable(h, S, k) ==
    IF k = 0 THEN S
    ELSE Reachable(h, S \cup (UNION {Refs(h, e) : e \in S} \ {0}), k - 1)

RECURSIVE Release(_, _)
Release(h, live) ==
    IF Len(h) \notin live THEN Release(SubSeq(h, 1, Len(h) - 1), live) ELSE h

\* the objects after the last shared_ptr to the newest ones is gone: those
\* that neither the interpreter, nor an activation, nor an object in use
\* points to are destroyed
Released(h, cur, fr) ==
    Release(h, Reachable(h, {1, cur} \cup {fr[i].previous : i \in DOMAIN fr}
                                     \cup {fr[i].blockEnv : i \in DOMAIN fr},
                         Len(h)))

\* VarStmt, lines 567-575
VarStmt(n, k) ==
    /\ mode = "run"
    /\ scopes' = EnvDefine(scopes, current, n, Number(k))
    /\ frames' = [i \in DOMAIN frames |->
                     IF i = Len(frames) /\ frames[i].blockEnv = current
                        /\ frames[i].kind = "block" /\ n \in VarNames
                     THEN [frames[i] EXCEPT !.redeclared = TRUE]
                     ELSE frames[i]]
    /\ lastOp' = NoOp
    /\ UNCHANGED <<parVars, atomVars, restVars, retValue, current, mode>>

\* AssignmentExpr, lines 309-318
AssignmentExpr(n, k) ==
    /\ mode = "run"
    /\ scopes' = EnvAssign(scopes, current, n, Number(k))
    /\ LET t == Resolve(scopes, current, n)
       IN /\ mode' = IF t = 0 THEN "error" ELSE "run"
          /\ frames' = [i \in DOMAIN frames |->
                           IF t # 0 /\ frames[i].seenScope = t
                           THEN [frames[i] EXCEPT !.dirty = TRUE]
                           ELSE frames[i]]
    /\ lastOp' = NoOp
    /\ UNCHANGED <<parVars, atomVars, restVars, retValue, current>>

\* VariableExpr, lines 300-307
VariableExpr(n) ==
    /\ mode = "run"
    /\ LET got == EnvGet(scopes, current, n)
       IN /\ mode' = IF got = NoEntry THEN "error" ELSE "run"
          /\ lastOp' = Op("get", n, got, got = NoEntry, current)
    /\ UNCHANGED <<parVars, atomVars, restVars, retValue, scopes, current, frames>>

\* a variant of the block statement that runs its statements in the scope
\* that is current
BlockStmtSameScope ==
    /\ mode = "run"
    /\ Len(scopes) < MaxScopes
    /\ frames' = Append(frames, Frame("block", current, current, 0, 0))
    /\ lastOp' = NoOp
    /\ UNCHANGED <<parVars, atomVars, restVars, retValue, scopes, current, mode>>

\* BlockStmt, lines 577-581, and the entry of executeBlock, lines 542-543
BlockStmt ==
    /\ mode = "run"
    /\ Len(scopes) < MaxScopes
    /\ scopes' = Append(scopes, Scope(current))
    /\ current' = Len(scopes) + 1
    /\ frames' = Append(frames, Frame("block", current, Len(scopes) + 1, 0, 0))
    /\ lastOp' = NoOp
    /\ UNCHANGED <<parVars, atomVars, restVars, retValue, mode>>

\* a variant of the function declaration that captures a copy of the
\* current scope
FunctionStmtSnapshot(n, a) ==
    /\ mode = "run"
    /\ Len(scopes) < MaxScopes
    /\ scopes' = Append(EnvDefine(scopes, current, n,
                                  Function(Len(scopes) + 1, a)),
                        scopes[current])
    /\ lastOp' = NoOp
    /\ UNCHANGED <<parVars, atomVars, restVars, retValue, current, frames, mode>>

\* FunctionStmt, lines 724-728: the function captures the current scope
FunctionStmt(n, a) ==
    /\ mode = "run"
    /\ scopes' = EnvDefine(scopes, current, n, Function(current, a))
    /\ lastOp' = NoOp
    /\ UNCHANGED <<parVars, atomVars, restVars, retValue, current, frames, mode>>

\* a variant of the call that chains the new scope to the caller's scope
CallParentOfCaller(fn) == current

\* line 519: the scope the call's new scope is chained to
CallParent(fn) == fn.closure

\* a variant of the dispatch in which a user binding of the name hides the
\* built-in
CalleeIsBuiltinUnlessBound(n) ==
    n \in builtins /\ EnvGet(scopes, current, n) = NoEntry

\* lines 500-505: the callee is a bare name the built-in table has
CalleeIsBuiltin(n) == n \in builtins

\* abs, lines 113-117, called with numbers: its result, none if it throws
BuiltinCall(n, args) ==
    IF Len(args) # 1 THEN NoEntry ELSE <<Number(Abs(args[1]))>>

\* a variant of the checks that lets any number of arguments pass
NotCallableArityFree(got, args) ==
    got = NoEntry \/ got[1].type # "FUNCTION"

\* lines 507-516: the callee's value (none if the lookup throws) cannot be
\* called with these arguments
NotCallable(got, args) ==
    \/ got = NoEntry
    \/ got[1].type # "FUNCTION"
    \/ got[1].arity # Len(args)

\* the call made: its callee, what it yielded at once, whether it threw,
\* its arguments, and the scopes and the depth of activations before it
CallMade(n, val, failed, args) ==
    [Op("call", n, val, failed, current) EXCEPT
        !.before = scopes,
        !.noted = [args |-> args, depth |-> Len(frames)]]

\* CallExpr, lines 493-524: args holds the values of the arguments; a
\* built-in of the callee's name is invoked; otherwise the callee is looked
\* up, must be a function of as many parameters, and its body is entered
\* in a new scope that binds the parameters
CallExpr(n, args) ==
    /\ mode = "run"
    /\ IF CalleeIsBuiltin(n)
       THEN LET r == BuiltinCall(n, args)
            IN /\ mode' = IF r = NoEntry THEN "error" ELSE "run"
               /\ lastOp' = CallMade(n, r, r = NoEntry, args)
               /\ UNCHANGED <<scopes, current, frames>>
       ELSE LET got == EnvGet(scopes, current, n)
            IN IF NotCallable(got, args)
               THEN /\ mode' = "error"
                    /\ lastOp' = CallMade(n, NoEntry, TRUE, args)
                    /\ UNCHANGED <<scopes, current, frames>>
               ELSE /\ Len(scopes) < MaxScopes
                    /\ LET callEnv == Scope(CallParent(got[1]))
                           bound ==
                               IF Len(args) = 0 THEN callEnv
                               ELSE [callEnv EXCEPT !.values["x"] =
                                                       <<Number(args[1])>>]
                       IN scopes' = Append(scopes, bound)
                    /\ current' = Len(scopes) + 1
                    /\ frames' = Append(frames,
                                        Frame("call", current,
                                              Len(scopes) + 1, got[1].closure,
                                              Resolve(scopes, current, n)))
                    /\ lastOp' = CallMade(n, NoEntry, FALSE, args)
                    /\ UNCHANGED mode
    /\ UNCHANGED <<parVars, atomVars, restVars, retValue>>

\* ReturnStmt, lines 730-736: v is the value of its expression, Nil if it
\* has none; the innermost call in progress notes the Return made in it
\* and the number of blocks it has to pass through
ReturnStmt(v) ==
    /\ mode = "run"
    /\ mode' = "return"
    /\ retValue' = v
    /\ LET bodies == {i \in DOMAIN frames : frames[i].kind = "call"}
       IN frames' = [i \in DOMAIN frames |->
                        IF i \in bodies /\ \A j \in bodies : j <= i
                        THEN [frames[i] EXCEPT !.ret = <<v>>,
                                               !.through = Len(frames) - i]
                        ELSE frames[i]]
    /\ lastOp' = NoOp
    /\ UNCHANGED <<parVars, atomVars, restVars, scopes, current>>

\* ParallelStmt with an initializer that is no variable declaration, lines
\* 608-625: the error is thrown while loopEnv is the current scope
ParallelStmtThrows ==
    /\ mode = "run"
    /\ Len(scopes) < MaxScopes
    /\ scopes' = Append(scopes, Scope(current))
    /\ current' = Len(scopes) + 1
    /\ mode' = "error"
    /\ lastOp' = NoOp
    /\ UNCHANGED <<parVars, atomVars, restVars, retValue, frames>>

\* a variant of the call that yields Nil whatever its body did
CallYieldsNil(how) == Nil

\* lines 523-531: the value of the call, by the way its body ended
CallYields(how) == IF how = "return" THEN retValue ELSE Nil

\* the end of an activation of executeBlock, by the way how; the end of a
\* function body is the end of the call, with its value
Exit(how) ==
    [Op("exit", how,
        IF Top.kind = "call" /\ how # "error" THEN <<CallYields(how)>>
        ELSE NoEntry,
        FALSE, Top.previous) EXCEPT !.noted = Top]

\* executeBlock, line 555: the statements have ended
BlockEnds ==
    /\ mode = "run"
    /\ frames # <<>>
    /\ current' = Top.previous
    /\ frames' = Pop
    /\ scopes' = Released(scopes, current', frames')
    /\ lastOp' = Exit("normal")
    /\ UNCHANGED <<parVars, atomVars, restVars, retValue, mode>>

\* a variant of executeBlock without its handler
BlockUnwindsUnrestored ==
    /\ mode # "run"
    /\ frames # <<>>
    /\ frames' = Pop
    /\ mode' = IF Top.kind = "call" /\ mode = "return" THEN "run" ELSE mode
    /\ retValue' = IF mode' = "run" THEN Nil ELSE retValue
    /\ lastOp' = Exit(mode)
    /\ UNCHANGED <<parVars, atomVars, restVars, scopes, current>>

\* executeBlock, lines 550-553: an exception passes through; the handler
\* of the call, lines 527-529, ends the flight of a ReturnException
BlockUnwinds ==
    /\ mode # "run"
    /\ frames # <<>>
    /\ current' = Top.previous
    /\ frames' = Pop
    /\ scopes' = Released(scopes, current', frames')
    /\ mode' = IF Top.kind = "call" /\ mode = "return" THEN "run" ELSE mode
    /\ retValue' = IF mode' = "run" THEN Nil ELSE retValue
    /\ lastOp' = Exit(mode)
    /\ UNCHANGED <<parVars, atomVars, restVars>>

\* run() of main.cpp, lines 22-27: the exception ends the execute() call
\* and the execution of the statements; the session goes on with the next
\* input
RunCatches ==
    /\ mode # "run"
    /\ frames = <<>>
    /\ mode' = "run"
    /\ retValue' = Nil
    /\ prog' = <<>>
    /\ pos' = 0
    /\ lastOp' = NoOp
    /\ UNCHANGED <<parVars, atomVars, scopes, current, frames>>
    /\ UNCHANGED <<builtins, trace, made, arrays, shares>>

\* a variant of clear() that keeps the global scope
ClearKeepsGlobals ==
    /\ mode = "run" /\ frames = <<>> /\ pos = 0
    /\ current' = 1
    /\ builtins' = BuiltinNames
    /\ made' = [n \in Names |-> NoEntry]
    /\ lastOp' = [Op("clear", "", NoEntry, FALSE, current) EXCEPT
                     !.noted = {n \in Names :
                                   EnvGet(scopes, current, n) # NoEntry}]
    /\ UNCHANGED <<parVars, atomVars, scopes, frames, mode, retValue>>
    /\ UNCHANGED <<prog, pos, trace, arrays, shares>>

\* clear(), lines 753-757, called by the host between execute() calls; the
\* step notes the names that were bound and the scope that was current
Clear ==
    /\ mode = "run" /\ frames = <<>> /\ pos = 0
    /\ \A w \in Workers : apc[w] = "idle"
    /\ scopes' = <<Scope(0)>>
    /\ globalVals' = [n \in RegNames |-> NoEntry]
    /\ current' = 1
    /\ builtins' = BuiltinNames
    /\ made' = [n \in Names |-> NoEntry]
    /\ lastOp' = [Op("clear", "", NoEntry, FALSE, current) EXCEPT
                     !.noted = {n \in Names :
                                   EnvGet(scopes, current, n) # NoEntry}]
    \* atomicVars and atomicMutex are static members (lines 40-41, 760-761)
    \* that clear() does not touch
    /\ UNCHANGED <<atomicVars, atomicMutex, acall, apc, calls, lastRet,
                   atomWritten, stored, incSum, incCount>>
    /\ UNCHANGED <<parVars, frames, mode, retValue>>
    /\ UNCHANGED <<prog, pos, trace, arrays, shares>>

\* the functions the statements declare have no parameters; the calls pass
\* no argument or one
Arities == {0}
ArgLists == {<<>>, <<1>>}

EvalNext ==
    \/ \E n \in VarNames, k \in Vals : VarStmt(n, k)
    \/ \E n \in VarNames, k \in Vals : AssignmentExpr(n, k)
    \/ \E n \in VarNames : VariableExpr(n)
    \/ BlockStmt
    \/ \E n \in FunNames, a \in Arities : FunctionStmt(n, a)
    \/ \E n \in FunNames : CallExpr(n, <<>>)
    \/ ReturnStmt(Nil)
    \/ ParallelStmtThrows
    \/ BlockEnds
    \/ BlockUnwinds
    \/ RunCatches

EvalSpec == EvalInit /\ [][EvalNext]_vars

\* sessions that declare and call functions, also under the name of a
\* built-in, return values from nested blocks, and are reset
CallNext ==
    \/ \E n \in FunNames \cup BuiltinNames : VarStmt(n, 1)
    \/ \E n \in FunNames \cup BuiltinNames, a \in Arities : FunctionStmt(n, a)
    \/ \E n \in FunNames \cup BuiltinNames, args \in ArgLists :
          CallExpr(n, args)
    \/ BlockStmt
    \/ \E v \in {Nil, Number(1)} : ReturnStmt(v)
    \/ ParallelStmtThrows
    \/ BlockEnds
    \/ BlockUnwinds
    \/ RunCatches
    \/ Clear

CallSpec == EvalInit /\ [][CallNext]_vars

RECURSIVE EvalArguments(_, _, _)

\* a variant of the evaluation of the arguments that leaves their effects
\* out
EvalArgumentsNoEffects(h, e, exprs) ==
    [scopes |-> h, failed |-> FALSE,
     args |-> [i \in DOMAIN exprs |-> exprs[i].val]]

\* lines 494-498: the arguments of a call are evaluated from the first to
\* the last.  An argument is the number val or, with a name, the assignment
\* name = val (AssignmentExpr, lines 309-318), which throws when name is
\* bound in no scope
\* and ends the evaluation there.  Yields the scopes after the arguments,
\* their values, and whether one threw
EvalArguments(h, e, exprs) ==
    IF exprs = <<>> THEN [scopes |-> h, failed |-> FALSE, args |-> <<>>]
    ELSE IF Head(exprs).name # "" /\ Resolve(h, e, Head(exprs).name) = 0
    THEN [scopes |-> h, failed |-> TRUE, args |-> <<>>]
    ELSE LET rest == EvalArguments(
                         IF Head(exprs).name = "" THEN h
                         ELSE EnvAssign(h, e, Head(exprs).name,
                                        Number(Head(exprs).val)),
                         e, Tail(exprs))
         IN [rest EXCEPT !.args = <<Head(exprs).val>> \o @]

\* CallExpr, lines 493-524, with argument expressions: the arguments are
\* evaluated, then a built-in of the callee's name is invoked, otherwise
\* the callee is looked up, must be a function of as many parameters, and
\* its body is entered.  The step notes the arguments, the scopes before
\* it and why it threw, if it did
CallArguments(n, exprs) ==
    /\ mode = "run"
    /\ LET r == EvalArguments(scopes, current, exprs)
           got == EnvGet(r.scopes, current, n)
           why == IF r.failed THEN "Argument"
                  ELSE IF CalleeIsBuiltin(n)
                  THEN (IF BuiltinCall(n, r.args) = NoEntry
                        THEN "Builtin" ELSE "")
                  ELSE IF got = NoEntry THEN "Undefined"
                  ELSE IF got[1].type # "FUNCTION" THEN "NotFunction"
                  ELSE IF got[1].arity # Len(r.args) THEN "ArgumentCount"
                  ELSE ""
           enters == why = "" /\ ~CalleeIsBuiltin(n)
           callEnv == Scope(CallParent(got[1]))
           bound == IF Len(r.args) = 0 THEN callEnv
                    ELSE [callEnv EXCEPT !.values["x"] =
                                            <<Number(r.args[1])>>]
       IN /\ enters => Len(scopes) < MaxScopes
          /\ mode' = IF why # "" THEN "error" ELSE "run"
          /\ scopes' = IF enters THEN Append(r.scopes, bound) ELSE r.scopes
          /\ current' = IF enters THEN Len(scopes) + 1 ELSE current
          /\ frames' = IF enters
                       THEN Append(frames,
                                   Frame("call", current, Len(scopes) + 1,
                                         got[1].closure,
                                         Resolve(r.scopes, current, n)))
                       ELSE frames
          /\ lastOp' = [Op("callArguments", n,
                           IF why = "" /\ CalleeIsBuiltin(n)
                           THEN BuiltinCall(n, r.args) ELSE NoEntry,
                           why # "", current) EXCEPT
                           !.before = scopes,
                           !.noted = [exprs |-> exprs, why |-> why]]
    /\ UNCHANGED <<parVars, atomVars, restVars, retValue>>

\* sessions that declare x and f and call f or abs with one or two
\* arguments that are assignments to x or to f; f has no parameter, so
\* that no call of these enters its body
ArgumentsSpec ==
    EvalInit /\
    [][\/ VarStmt("x", 1)
       \/ FunctionStmt("f", 0)
       \/ \E n \in FunNames \cup BuiltinNames,
             exprs \in UNION {[1..len -> {[name |-> "x", val |-> 1],
                                          [name |-> "x", val |-> 2],
                                          [name |-> "f", val |-> 1]}] :
                                 len \in 1..2} :
             CallArguments(n, exprs)
       \/ RunCatches]_vars

\* a session of calls of atomic_store and atomic_load with calls of clear()
\* between them
SessionSpec ==
    AtomicInit /\
    [][\/ \E w \in Workers, n \in RegNames :
             \/ AtomicBegin(w, Call("store", n, 5, 0))
             \/ AtomicBegin(w, Call("load", n, 0, 0))
       \/ \E w \in Workers : AtomicLoad(w)
       \/ \E w \in Workers : AtomicWrite(w)
       \/ \E w \in Workers : AtomicMirror(w)
       \/ Clear]_vars

(***************************************************************************)
(* Arrays and strings.  A value of these kinds refers to the elements; a   *)
(* copy of the value refers to the same elements.                          *)
(***************************************************************************)
\* a value that refers to arrays[ref]
Handle(kind, ref) == [type |-> kind, num |-> ref, closure |-> 0, arity |-> 0]

\* what the name refers to: none if it is not bound to an array or string
Deref(n) ==
    LET got == EnvGet(scopes, current, n)
    IN IF got # NoEntry /\ got[1].type \in {"ARRAY", "STRING"}
       THEN <<arrays[got[1].num]>> ELSE NoEntry

\* the pairs of names declared as copies, once name n is bound anew
Unshared(n) == {p \in shares : n \notin p}

\* var n = [...] or var n = "...": the literal makes new elements
LiteralStmt(n, kind, elems) ==
    /\ mode = "run"
    /\ Len(arrays) < MaxArrays
    /\ arrays' = Append(arrays, elems)
    /\ scopes' = EnvDefine(scopes, current, n, Handle(kind, Len(arrays) + 1))
    /\ shares' = Unshared(n)
    /\ lastOp' = NoOp
    /\ UNCHANGED <<parVars, atomVars, current, frames, mode, retValue>>
    /\ UNCHANGED <<builtins, prog, pos, trace, made>>

\* a variant of the declaration that gives the new name elements of its own
CopyStmtDeep(n, m) ==
    /\ mode = "run"
    /\ Deref(m) # NoEntry
    /\ Len(arrays) < MaxArrays
    /\ arrays' = Append(arrays, Deref(m)[1])
    /\ scopes' = EnvDefine(scopes, current, n,
                           Handle(EnvGet(scopes, current, m)[1].type,
                                  Len(arrays) + 1))
    /\ shares' = Unshared(n) \cup {{n, m}}
    /\ lastOp' = NoOp
    /\ UNCHANGED <<parVars, atomVars, current, frames, mode, retValue>>
    /\ UNCHANGED <<builtins, prog, pos, trace, made>>

\* var n = m (VarStmt, lines 567-575, with a VariableExpr initializer): the
\* value of m is copied into the binding of n
CopyStmt(n, m) ==
    /\ mode = "run"
    /\ LET got == EnvGet(scopes, current, m)
       IN IF got = NoEntry
          THEN /\ mode' = "error"
               /\ UNCHANGED <<scopes, shares>>
          ELSE /\ scopes' = EnvDefine(scopes, current, n, got[1])
               /\ shares' = IF Deref(m) = NoEntry THEN Unshared(n)
                            ELSE Unshared(n) \cup {{n, m}}
               /\ UNCHANGED mode
    /\ lastOp' = NoOp
    /\ UNCHANGED <<parVars, atomVars, current, frames, retValue, arrays>>
    /\ UNCHANGED <<builtins, prog, pos, trace, made>>

\* a call of a built-in or an index assignment that changes elements in
\* place: it fails, or arrays[ref] becomes elems
InPlace(failed, ref, elems) ==
    /\ mode' = IF failed THEN "error" ELSE "run"
    /\ arrays' = IF failed THEN arrays ELSE [arrays EXCEPT ![ref] = elems]
    /\ lastOp' = NoOp
    /\ UNCHANGED <<parVars, atomVars, scopes, current, frames, retValue>>
    /\ UNCHANGED <<builtins, prog, pos, trace, made, shares>>

\* push(n, k), lines 274-280
PushCall(n, k) ==
    /\ mode = "run"
    /\ LET got == EnvGet(scopes, current, n)
           bad == got = NoEntry \/ got[1].type # "ARRAY"
       IN /\ ~bad => Len(arrays[got[1].num]) < MaxLen
          /\ InPlace(bad, IF bad THEN 0 ELSE got[1].num,
                     IF bad THEN <<>> ELSE Append(arrays[got[1].num], k))

\* pop(n), lines 282-290
PopCall(n) ==
    /\ mode = "run"
    /\ LET got == EnvGet(scopes, current, n)
           bad == \/ got = NoEntry
                  \/ got[1].type # "ARRAY"
                  \/ arrays[got[1].num] = <<>>
       IN InPlace(bad, IF bad THEN 0 ELSE got[1].num,
                  IF bad THEN <<>>
                  ELSE SubSeq(arrays[got[1].num], 1,
                              Len(arrays[got[1].num]) - 1))

\* a variant of the index check that takes no index below zero
IndexAtFromStart(n, i) ==
    LET size == IF Deref(n) = NoEntry THEN 0 ELSE Len(Deref(n)[1])
    IN [at |-> i,
        why |-> IF EnvGet(scopes, current, n) = NoEntry THEN "Undefined"
                ELSE IF Deref(n) = NoEntry THEN "NotIndexable"
                ELSE IF i < 0 \/ i >= size THEN "IndexOutOfBounds"
                ELSE ""]

\* the checks that IndexExpr (lines 424-457) and IndexAssignExpr (lines
\* 459-491) make of n[i] with a number i: n is bound, to a string or an
\* array, and i, counted from the end when below zero, is within its size
IndexAt(n, i) ==
    LET size == IF Deref(n) = NoEntry THEN 0 ELSE Len(Deref(n)[1])
        at == IF i < 0 THEN size + i ELSE i
    IN [at |-> at,
        why |-> IF EnvGet(scopes, current, n) = NoEntry THEN "Undefined"
                ELSE IF Deref(n) = NoEntry THEN "NotIndexable"
                ELSE IF at < 0 \/ at >= size THEN "IndexOutOfBounds"
                ELSE ""]

\* n[i] (IndexExpr, lines 424-457).  The step notes the index and the
\* elements
IndexExpr(n, i) ==
    /\ mode = "run"
    /\ mode' = IF IndexAt(n, i).why # "" THEN "error" ELSE "run"
    /\ lastOp' = [Op("index", n,
                     IF IndexAt(n, i).why # "" THEN <<IndexAt(n, i).why>>
                     ELSE <<Deref(n)[1][IndexAt(n, i).at + 1]>>,
                     IndexAt(n, i).why # "", current) EXCEPT
                     !.before = Deref(n), !.noted = i]
    /\ UNCHANGED <<parVars, atomVars, scopes, current, frames, retValue>>
    /\ UNCHANGED <<builtins, prog, pos, trace, made, arrays, shares>>

\* n[i] = k (IndexAssignExpr, lines 459-491).  The step notes the index
\* and the elements before it
IndexAssignExpr(n, i, k) ==
    /\ mode = "run"
    /\ mode' = IF IndexAt(n, i).why # "" THEN "error" ELSE "run"
    /\ arrays' = IF IndexAt(n, i).why # "" THEN arrays
                 ELSE [arrays EXCEPT
                          ![EnvGet(scopes, current, n)[1].num]
                           [IndexAt(n, i).at + 1] = k]
    /\ lastOp' = [Op("indexAssign", n,
                     IF IndexAt(n, i).why # "" THEN <<IndexAt(n, i).why>>
                     ELSE <<k>>,
                     IndexAt(n, i).why # "", current) EXCEPT
                     !.before = Deref(n), !.noted = i]
    /\ UNCHANGED <<parVars, atomVars, scopes, current, frames, retValue>>
    /\ UNCHANGED <<builtins, prog, pos, trace, made, shares>>

\* n[i] = k; as a statement of a script (ExpressionStmt, whose value is
\* dropped)
IndexAssignStmt(n, i, k) ==
    /\ mode = "run"
    /\ InPlace(IndexAt(n, i).why # "",
               IF IndexAt(n, i).why # "" THEN 0
               ELSE EnvGet(scopes, current, n)[1].num,
               IF IndexAt(n, i).why # "" THEN <<>>
               ELSE [Deref(n)[1] EXCEPT ![IndexAt(n, i).at + 1] = k])

ArrayNext ==
    \/ \E n \in VarNames \cup FunNames, kind \in {"ARRAY", "STRING"},
          elems \in {<<>>, <<1>>} : LiteralStmt(n, kind, elems)
    \/ \E n \in VarNames \cup FunNames :
          \E m \in (VarNames \cup FunNames) \ {n} : CopyStmt(n, m)
    \/ \E n \in VarNames \cup FunNames, k \in Vals : PushCall(n, k)
    \/ \E n \in VarNames \cup FunNames : PopCall(n)
    \/ \E n \in VarNames \cup FunNames, i \in {-1, 0}, k \in Vals :
          IndexAssignStmt(n, i, k)

\* a script file (runFile, main.cpp lines 30-43): one run, which its first
\* runtime error ends
ArraySpec == EvalInit /\ [][ArrayNext]_vars

\* the first statement of the script declared x as an array, a string or a
\* number
IndexInit ==
    /\ ParallelIdle /\ AtomicIdle
    /\ \E kind \in {"ARRAY", "STRING", "NUMBER"},
          elems \in UNION {[1..len -> Vals] : len \in 0..MaxLen} :
          /\ scopes = EnvDefine(<<Scope(0)>>, 1, "x",
                                IF kind = "NUMBER" THEN Number(Len(elems))
                                ELSE Handle(kind, 1))
          /\ arrays = IF kind = "NUMBER" THEN <<>> ELSE <<elems>>
    /\ current = 1 /\ frames = <<>> /\ mode = "run" /\ retValue = Nil
    /\ lastOp = NoOp /\ builtins = BuiltinNames /\ prog = <<>> /\ pos = 0
    /\ trace = <<>> /\ shares = {} /\ made = [n \in Names |-> NoEntry]

\* the script goes on to read and write x by index
IndexSpec ==
    IndexInit /\
    [][\/ \E i \in (0 - MaxLen - 1)..MaxLen : IndexExpr("x", i)
       \/ \E i \in (0 - MaxLen - 1)..MaxLen, k \in Vals :
             IndexAssignExpr("x", i, k)]_vars

(***************************************************************************)
(* Interpreter::execute, lines 747-751, called by run (main.cpp lines      *)
(* 8-28) once for every line of a REPL session, on one Interpreter.        *)
(***************************************************************************)
\* the top-level statements of the programs: var x = k; a read of f, which
\* no statement binds; and parallel (var x = k; x < 3; x++) { f(); }, whose
\* body fails in its first iteration
Stmts ==
    {[kind |-> c, name |-> "x", val |-> k] : c \in {"var", "parallel"},
                                             k \in Vals}
    \cup {[kind |-> "get", name |-> "f", val |-> 1]}

\* run (main.cpp line 17) calls execute(statements)
ExecuteBegins(p) ==
    /\ mode = "run"
    /\ pos = 0
    /\ prog' = p
    /\ pos' = 1
    /\ trace' = <<>>
    /\ lastOp' = NoOp
    /\ UNCHANGED <<parVars, atomVars, scopes, current, frames, mode, retValue>>
    /\ UNCHANGED <<builtins, made, arrays, shares>>

\* one pass of the loop of execute, line 749: executeStmt(stmt). A VarStmt
\* defines the name in the current scope (567-575); a read of an unbound
\* name throws (300-307, Environment.h 25-36); the parallel statement takes
\* the sequential branch, lines 655-663: seqEnv becomes the current scope,
\* the initializer defines the loop variable there and the body throws,
\* which leaves the statement before line 662. An exception leaves the loop
\* and execute. made is the binding each name was given by the top-level
\* declarations that were executed
ExecuteStmt ==
    /\ mode = "run"
    /\ pos \in 1..Len(prog)
    /\ LET st == prog[pos]
           bad == \/ st.kind = "parallel"
                  \/ st.kind = "get" /\ EnvGet(scopes, current, st.name) = NoEntry
       IN /\ st.kind = "parallel" => Len(scopes) < MaxScopes
          /\ trace' = Append(trace, [at |-> pos, failed |-> bad])
          /\ scopes' =
                IF st.kind = "var"
                THEN EnvDefine(scopes, current, st.name, Number(st.val))
                ELSE IF st.kind = "parallel"
                THEN EnvDefine(Append(scopes, Scope(current)),
                               Len(scopes) + 1, st.name, Number(st.val))
                ELSE scopes
          /\ current' = IF st.kind = "parallel" THEN Len(scopes) + 1
                        ELSE current
          /\ made' = IF st.kind = "var"
                     THEN [made EXCEPT ![st.name] = <<Number(st.val)>>]
                     ELSE made
          /\ mode' = IF bad THEN "error" ELSE "run"
          /\ pos' = IF bad THEN pos ELSE pos + 1
    /\ lastOp' = NoOp
    /\ UNCHANGED <<parVars, atomVars, frames, retValue>>
    /\ UNCHANGED <<builtins, prog, arrays, shares>>

\* the loop of execute ends and execute returns to run
ExecuteReturns ==
    /\ mode = "run"
    /\ pos = Len(prog) + 1
    /\ pos' = 0
    /\ prog' = <<>>
    /\ lastOp' = NoOp
    /\ UNCHANGED <<parVars, atomVars, scopes, current, frames, mode, retValue>>
    /\ UNCHANGED <<builtins, trace, made, arrays, shares>>

ExecNext ==
    \/ \E p \in UNION {[1..len -> Stmts] : len \in 1..MaxStmts} :
          ExecuteBegins(p)
    \/ ExecuteStmt
    \/ ExecuteReturns
    \/ RunCatches

ExecSpec == EvalInit /\ [][ExecNext]_vars

(***************************************************************************)
(* Value::applyBinaryOp for == and in, Value.h lines 144-219.  A value is  *)
(* its type with numberValue or boolValue (num), stringValue (str, the     *)
(* sequence of its characters) and arrayValue (elems).                     *)
(***************************************************************************)
\* Value::toString, lines 77-107, of nil, a boolean or a number below ten
\* (operator<< of a double with no fraction writes its digits), and of a
\* string, and of an array of them
RECURSIVE ValueToString(_)
ValueToString(v) ==
    CASE v.type = "NIL" -> <<"n", "i", "l">>
      [] v.type = "BOOL" -> IF v.num = 1 THEN <<"t", "r", "u", "e">>
                            ELSE <<"f", "a", "l", "s", "e">>
      [] v.type = "NUMBER" ->
            <<(<<"0", "1", "2", "3", "4", "5", "6", "7", "8", "9">>)[v.num + 1]>>
      [] v.type = "STRING" -> v.str
      [] v.type = "ARRAY" ->
            IF v.elems = <<>> THEN <<"[", "]">>
            ELSE LET n == Len(v.elems)
                     front == ValueToString(
                                 [v EXCEPT !.elems = SubSeq(v.elems, 1, n - 1)])
                 IN SubSeq(front, 1, Len(front) - 1)
                    \o (IF n > 1 THEN <<",", " ">> ELSE <<>>)
                    \o ValueToString(v.elems[n]) \o <<"]">>

\* Value::isEqual, lines 109-122
IsEqual(a, b) ==
    IF a.type # b.type THEN FALSE
    ELSE CASE a.type = "NIL" -> TRUE
           [] a.type \in {"BOOL", "NUMBER"} -> a.num = b.num
           [] a.type = "STRING" -> a.str = b.str
           [] a.type = "ARRAY" -> Len(a.elems) = Len(b.elems)

\* Value::applyBinaryOp, lines 144-219, for op "==" and "in": the boolean
\* it returns, NoEntry when it throws
ApplyBinaryOp(op, a, b) ==
    IF a.type = "NUMBER" /\ b.type = "NUMBER"
    THEN IF op = "==" THEN <<a.num = b.num>> ELSE NoEntry
    ELSE IF a.type = "STRING" /\ b.type = "STRING"
    THEN IF op = "==" THEN <<a.str = b.str>>
         ELSE <<\E i \in 1..(Len(b.str) + 1) :
                   /\ i + Len(a.str) - 1 <= Len(b.str)
                   /\ SubSeq(b.str, i, i + Len(a.str) - 1) = a.str>>
    ELSE IF b.type = "ARRAY" /\ op = "in"
    THEN <<\E i \in DOMAIN b.elems : IsEqual(a, b.elems[i])>>
    ELSE IF op = "=="
    THEN IF a.type = "STRING" /\ b.type # "STRING"
         THEN <<a.str = ValueToString(b)>>
         ELSE IF a.type # "STRING" /\ b.type = "STRING"
         THEN <<ValueToString(a) = b.str>>
         ELSE <<IsEqual(a, b)>>
    ELSE NoEntry

\* the operands of a binary expression: retValue is the left operand and
\* arrays[1] the right one, a scalar or an array of up to MaxLen scalars
OperandsInit ==
    LET V(t, k, s) == [type |-> t, num |-> k, str |-> s, elems |-> <<>>]
        scalars == {V("NIL", 0, <<>>), V("BOOL", 1, <<>>), V("BOOL", 0, <<>>)}
                   \cup {V("NUMBER", k, <<>>) : k \in Vals \cup {0}}
                   \cup {V("STRING", 0, s) :
                            s \in {<<>>, <<"1">>, <<"n", "i", "l">>,
                                   <<"t", "r", "u", "e">>}}
    IN /\ ParallelIdle /\ AtomicIdle
       /\ scopes = <<Scope(0)>> /\ current = 1 /\ frames = <<>>
       /\ mode = "run" /\ lastOp = NoOp /\ builtins = BuiltinNames
       /\ prog = <<>> /\ pos = 0 /\ trace = <<>> /\ shares = {}
       /\ made = [n \in Names |-> NoEntry]
       /\ retValue \in scalars
       /\ \E right \in scalars \cup
                       {[type |-> "ARRAY", num |-> 0, str |-> <<>>,
                         elems |-> e] :
                           e \in UNION {[1..len -> scalars] :
                                           len \in 0..MaxLen}} :
             arrays = <<right>>

\* Value::isTruthy, Value.h lines 65-75
IsTruthy(v) ==
    CASE v.type = "NIL" -> FALSE
      [] v.type \in {"BOOL", "NUMBER"} -> v.num # 0
      [] v.type = "STRING" -> v.str # <<>>
      [] v.type = "ARRAY" -> v.elems # <<>>

\* a variant of the expression that evaluates both operands of and / or
BinaryExprEager(op) ==
    /\ mode = "run"
    /\ lastOp = NoOp
    /\ LET got == IF op = "and"
                  THEN <<IsTruthy(retValue) /\ IsTruthy(arrays[1])>>
                  ELSE IF op = "or"
                  THEN <<IsTruthy(retValue) \/ IsTruthy(arrays[1])>>
                  ELSE ApplyBinaryOp(op, retValue, arrays[1])
       IN /\ lastOp' = [Op(op, "", got, got = NoEntry, current) EXCEPT
                           !.noted = <<"left", "right">>]
          /\ mode' = IF got = NoEntry THEN "error" ELSE "run"
    /\ UNCHANGED <<parVars, atomVars, scopes, current, frames, retValue>>
    /\ UNCHANGED <<builtins, prog, pos, trace, made, arrays, shares>>

\* BinaryExpr, Interpreter.h lines 382-403.  and / or (383-392) evaluate
\* the left operand and, depending on its truthiness, the right one; the
\* other operators evaluate both operands and call
\* left.applyBinaryOp(op, right), and a std::runtime_error becomes a
\* RuntimeError.  The step notes the operands it evaluated
BinaryExpr(op) ==
    /\ mode = "run"
    /\ lastOp = NoOp
    /\ LET short == \/ op = "and" /\ ~IsTruthy(retValue)
                    \/ op = "or" /\ IsTruthy(retValue)
           got == IF short THEN <<op = "or">>
                  ELSE IF op \in {"and", "or"} THEN <<IsTruthy(arrays[1])>>
                  ELSE ApplyBinaryOp(op, retValue, arrays[1])
       IN /\ lastOp' = [Op(op, "", got, got = NoEntry, current) EXCEPT
                           !.noted = IF short THEN <<"left">>
                                     ELSE <<"left", "right">>]
          /\ mode' = IF got = NoEntry THEN "error" ELSE "run"
    /\ UNCHANGED <<parVars, atomVars, scopes, current, frames, retValue>>
    /\ UNCHANGED <<builtins, prog, pos, trace, made, arrays, shares>>

OperandsSpec ==
    OperandsInit /\ [][\E op \in {"==", "in", "and", "or"} : BinaryExpr(op)]_vars

(***************************************************************************)
(* The body x += 1 (CompoundAssignExpr, lines 320-349) run by the worker   *)
(* threads of a parallel statement, lines 681-712, on a variable x of a    *)
(* scope they share.  Environment::get and Environment::assign (lines      *)
(* 25-57 of Environment.h) hold the mutex of the scope whose table they    *)
(* look at, each for the time of its own lookup.  The scopes a worker      *)
(* passes before it reaches the one that binds x are its own.              *)
(***************************************************************************)
\* the declaration var x = k was executed before the statement
RaceInit ==
    /\ ParallelIdle /\ AtomicIdle
    /\ \E k \in Vals :
          /\ scopes = EnvDefine(<<Scope(0)>>, 1, "x", Number(k))
          /\ made = [n \in Names |-> IF n = "x" THEN <<Number(k)>> ELSE NoEntry]
    /\ current = 1 /\ frames = <<>> /\ mode = "run" /\ retValue = Nil
    /\ lastOp = NoOp /\ builtins = BuiltinNames /\ prog = <<>> /\ pos = 0
    /\ trace = <<>> /\ arrays = <<>> /\ shares = {}

\* std::lock_guard<std::mutex> lock(mutex) of get (Environment.h line 27)
\* and of assign (line 43), in the scope that binds x
LockGuard(w) ==
    /\ envMutex = 0
    /\ cpc[w] \in {"get", "assign"}
    /\ cpc[w] = "get" => updates[w] < MaxUpdates
    /\ envMutex' = w
    /\ cpc' = [cpc EXCEPT ![w] = IF cpc[w] = "get" THEN "getLocked"
                                 ELSE "assignLocked"]
    /\ lastOp' = Op("lock", "x", NoEntry, FALSE, w)
    /\ UNCHANGED <<stmtVars, atomVars, scopes, current, frames, mode, retValue>>
    /\ UNCHANGED <<restVars, currentVal, iterMutex, updates, written>>

\* a variant of get that keeps the mutex until the assignment is made
CompoundGetHolding(w) ==
    /\ cpc[w] = "getLocked"
    /\ currentVal' = [currentVal EXCEPT ![w] = EnvGet(scopes, current, "x")[1].num]
    /\ cpc' = [cpc EXCEPT ![w] = "assignLocked"]
    /\ lastOp' = Op("get", "x", EnvGet(scopes, current, "x"), FALSE, w)
    /\ UNCHANGED <<stmtVars, atomVars, scopes, current, frames, mode, retValue>>
    /\ UNCHANGED <<restVars, envMutex, iterMutex, updates, written>>

\* currentVal = environment->get(compound->name), Interpreter.h line 323:
\* the entry is read and the lock_guard's block ends (Environment.h 26-32)
CompoundGet(w) ==
    /\ cpc[w] = "getLocked"
    /\ currentVal' = [currentVal EXCEPT ![w] = EnvGet(scopes, current, "x")[1].num]
    /\ envMutex' = 0
    /\ cpc' = [cpc EXCEPT ![w] = "assign"]
    /\ lastOp' = Op("get", "x", EnvGet(scopes, current, "x"), FALSE, w)
    /\ UNCHANGED <<stmtVars, atomVars, scopes, current, frames, mode, retValue>>
    /\ UNCHANGED <<restVars, iterMutex, updates, written>>

\* newVal = currentVal + 1 (lines 333-342) and environment->assign(name,
\* newVal), line 347: the entry is written and the lock_guard's block ends
\* (Environment.h 42-49)
CompoundAssign(w) ==
    /\ cpc[w] = "assignLocked"
    /\ scopes' = EnvAssign(scopes, current, "x", Number(currentVal[w] + 1))
    /\ written' = written \cup {currentVal[w] + 1}
    /\ updates' = [updates EXCEPT ![w] = updates[w] + 1]
    /\ envMutex' = 0
    /\ cpc' = [cpc EXCEPT ![w] = "get"]
    /\ lastOp' = Op("assign", "x", <<Number(currentVal[w] + 1)>>, FALSE, w)
    /\ UNCHANGED <<stmtVars, atomVars, current, frames, mode, retValue>>
    /\ UNCHANGED <<restVars, currentVal, iterMutex>>

RaceSpec ==
    RaceInit /\ [][\E w \in Workers : \/ LockGuard(w)
                                      \/ CompoundGet(w)
                                      \/ CompoundAssign(w)]_vars

(***************************************************************************)
(* Workers of a parallel statement at the top level (lines 681-712) whose  *)
(* bodies read the global x and call atomic_store and atomic_load.  A      *)
(* worker's iterEnv encloses the global scope; Environment::get (lines     *)
(* 25-39 of Environment.h) looks into iterEnv and then into the global     *)
(* scope, each under the scope's own mutex.                                *)
(***************************************************************************)
\* a variant of get that calls enclosing->get inside the lock_guard's block
EnvLookupHolding(w) ==
    /\ cpc[w] \in {"iterEnvLocked", "enclosingLocked"}
    /\ iterMutex' = iterMutex
    /\ envMutex' = IF cpc[w] = "enclosingLocked" THEN 0 ELSE envMutex
    /\ cpc' = [cpc EXCEPT ![w] = IF cpc[w] = "iterEnvLocked" THEN "enclosing"
                                 ELSE "get"]
    /\ updates' = [updates EXCEPT ![w] = IF cpc[w] = "enclosingLocked"
                                         THEN @ + 1 ELSE @]
    /\ lastOp' = NoOp
    /\ UNCHANGED <<stmtVars, atomVars, scopes, current, frames, mode, retValue>>
    /\ UNCHANGED <<restVars, currentVal, written>>

\* std::lock_guard<std::mutex> lock(mutex) of get (Environment.h line 27):
\* in iterEnv when the worker begins to read x, in the enclosing global
\* scope after iterEnv was found not to bind x
EnvLock(w) ==
    /\ apc[w] = "idle"
    /\ cpc[w] \in {"get", "enclosing"}
    /\ cpc[w] = "get" => updates[w] < MaxUpdates
    /\ cpc[w] = "enclosing" => envMutex = 0
    /\ iterMutex' = IF cpc[w] = "get" THEN [iterMutex EXCEPT ![w] = TRUE]
                    ELSE iterMutex
    /\ envMutex' = IF cpc[w] = "enclosing" THEN w ELSE envMutex
    /\ cpc' = [cpc EXCEPT ![w] = IF cpc[w] = "get" THEN "iterEnvLocked"
                                 ELSE "enclosingLocked"]
    /\ lastOp' = NoOp
    /\ UNCHANGED <<stmtVars, atomVars, scopes, current, frames, mode, retValue>>
    /\ UNCHANGED <<restVars, currentVal, updates, written>>

\* values.find(name) and the end of the lock_guard's block (Environment.h
\* lines 28-32): iterEnv does not bind x and get goes on to
\* enclosing->get (lines 34-36); the global scope binds x and get returns
EnvLookup(w) ==
    /\ cpc[w] \in {"iterEnvLocked", "enclosingLocked"}
    /\ iterMutex' = [iterMutex EXCEPT ![w] = FALSE]
    /\ envMutex' = IF cpc[w] = "enclosingLocked" THEN 0 ELSE envMutex
    /\ cpc' = [cpc EXCEPT ![w] = IF cpc[w] = "iterEnvLocked" THEN "enclosing"
                                 ELSE "get"]
    /\ updates' = [updates EXCEPT ![w] = IF cpc[w] = "enclosingLocked"
                                         THEN @ + 1 ELSE @]
    /\ lastOp' = NoOp
    /\ UNCHANGED <<stmtVars, atomVars, scopes, current, frames, mode, retValue>>
    /\ UNCHANGED <<restVars, currentVal, written>>

LockNext ==
    \/ \E w \in Workers : AtomicBegin(w, Call("store", "x", 5, 0))
    \/ \E w \in Workers : AtomicBegin(w, Call("load", "x", 0, 0))
    \/ \E w \in Workers : AtomicLoad(w)
    \/ \E w \in Workers : AtomicWrite(w)
    \/ \E w \in Workers : AtomicMirror(w)
    \/ \E w \in Workers : EnvLock(w)
    \/ \E w \in Workers : EnvLookup(w)

LockSpec == RaceInit /\ [][LockNext]_vars

(***************************************************************************)
(* Definitions the properties are stated with.                             *)
(***************************************************************************)
Count(b, k) == IF k \in DOMAIN b THEN b[k] ELSE 0

Terminal == pc \in {"done", "raised"}

\* the number of induction values  startVal + k * stepVal, k = 0, 1, ...,
\* that lie before endVal in the direction of the step
IterCount ==
    LET span == IF stepVal > 0 THEN endVal - startVal ELSE startVal - endVal
        by == Abs(stepVal)
    IN IF span <= 0 THEN 0 ELSE (span + by - 1) \div by

\* the body was run at least once, to its end or to an error
BodyRan == ranVals # EmptyValBag \/ thrown # {}

\* a header of the form section 4.5 of the design recognises
IncOfInduction(h) ==
    /\ h.inc \in {"postinc", "postdec", "pluseq", "minuseq"}
    /\ h.incName = "i"
CondOfInduction(h) == h.cond \in {"lt", "le"} /\ h.lhs = "i" /\ h.rhsNum
ZeroStep(h) == h.inc \in {"pluseq", "minuseq"} /\ h.incVal = 0
RecognisedHeader(h) ==
    h.init = "var" /\ CondOfInduction(h) /\ IncOfInduction(h) /\ ~ZeroStep(h)

UnsupportedForm == pc = "raised" /\ raised \in {NoVarInitMsg, TooComplexMsg}

\* the bag of induction values with which  init; while (cond) { body; inc }
\* runs its body, for a body that never fails, cut after fuel iterations
RECURSIVE WhileVals(_, _, _, _)
WhileVals(h, iv, jv, fuel) ==
    IF fuel = 0 \/ ~CondTruthy(h, iv, jv) THEN EmptyValBag
    ELSE BagAdd(WhileVals(h,
                          IF h.incName = "i" THEN IncResult(h, iv) ELSE iv,
                          IF h.incName = "j" THEN IncResult(h, jv) ELSE jv,
                          fuel - 1),
                iv)

(***************************************************************************)
(* Properties.                                                             *)
(***************************************************************************)
\* C1: on the parallel path no iteration index is ever started twice, and
\* when the statement completes without a fault every index 0..count-1 was
\* run exactly once, to its end, and no other index was run.
C1_EveryIndexOnce ==
    path = "par" =>
        /\ \A k \in DOMAIN started : started[k] = 1
        /\ pc = "done" =>
              /\ DOMAIN finished = 0..(IterCount - 1)
              /\ \A k \in 0..(IterCount - 1) :
                    Count(started, k) = 1 /\ Count(finished, k) = 1
              /\ totalOps <= IterCount

C1_Witness ==
    /\ pc = "done" /\ path = "par"
    /\ BagSize(finished) >= Threshold
    /\ \A w \in Workers : wpc[w] = "exited"

\* C2 (as claimed): for a recognised header and a body that never fails, the
\* bag of induction values the statement ran its body with, on either path,
\* is the bag the while loop built from the same header runs with.
C2_SameValuesAsWhile ==
    (pc = "done" /\ RecognisedHeader(hdr) /\ failVals = {}) =>
        ranVals = WhileVals(hdr, hdr.start, 0, MaxSeqIters + 1)

\* C3: once the body has raised an error on the parallel path the statement
\* does not complete normally; when it ends it throws to the caller an
\* error carrying the message of an error the body raised.
C3_FaultIsRethrown ==
    (path = "par" /\ thrown # {}) =>
        /\ pc # "done"
        /\ pc = "raised" => raised \in thrown

C3_Witness ==
    /\ pc = "raised" /\ path = "par"
    /\ raised \in thrown
    /\ \A w \in Workers : wpc[w] = "exited"

\* C4 (as claimed): the message thrown to the caller is the one the first
\* faulting worker recorded.
C4_FirstFaultWins ==
    (pc = "raised" /\ path = "par") => raised = firstFault

\* C5: a worker that has read the stop flag as set has left its loop and is
\* never again claiming or running an iteration, and the iterations started
\* by all workers together never exceed the iteration count.
C5_StopAndAtMostCount ==
    /\ \A w \in sawStop : wpc[w] = "exited"
    /\ path = "par" => BagSize(started) <= IterCount

C5_Witness ==
    /\ pc = "raised" /\ path = "par"
    /\ sawStop # {}
    /\ BagSize(started) < IterCount

\* C6: every iteration a worker has started is still being run by that
\* worker, or has run to its end, or raised its own error: setting the stop
\* flag never cuts short an iteration another worker has in progress.
C6_InProgressCompletes ==
    path = "par" =>
        \A k \in DOMAIN started :
            \/ Count(finished, k) = started[k]
            \/ \E w \in Workers :
                  wpc[w] \in {"body", "body_end"} /\ widx[w] = k
            \/ CurrentI(k) \in failVals

C6_Witness ==
    /\ pc = "raised" /\ path = "par"
    /\ lateDone
    /\ \A k \in DOMAIN started :
          Count(finished, k) = 1 \/ CurrentI(k) \in failVals

\* C7: when the statement has completed in the calling thread, normally or
\* by the rethrown fault, every worker thread that was started has ended.
C7_CompleteAfterWorkers ==
    (Terminal /\ path = "par") =>
        /\ threads = ActualThreads
        /\ \A w \in 1..threads : wpc[w] = "exited"

C7_Witness ==
    /\ Terminal /\ path = "par"
    /\ threads >= 2
    /\ \A w \in 1..threads : wpc[w] = "exited"

\* C8 (as claimed): a statement whose init is no variable declaration, whose
\* condition is not  i < bound  or  i <= bound  on the induction variable
\* with a numeric bound, or whose step is zero never runs its body and ends
\* by the unsupported-form error.
C8_UnrecognisedIsRejected ==
    (hdr.init # "var" \/ ~CondOfInduction(hdr) \/ ZeroStep(hdr)) =>
        /\ ~BodyRan /\ started = <<>>
        /\ pc # "done"
        /\ pc = "raised" => UnsupportedForm

\* C9 (as claimed): a statement whose increment is absent or is not ++, --,
\* += or -= on the induction variable never runs its body and ends by the
\* unsupported-form error.
C9_UnrecognisedIncIsRejected ==
    (hdr.init = "var" /\ CondOfInduction(hdr) /\ ~IncOfInduction(hdr)) =>
        /\ ~BodyRan /\ started = <<>>
        /\ pc # "done"
        /\ pc = "raised" => UnsupportedForm

\* C10 (as claimed): when the iteration count computed for a recognised
\* header is not positive the body is never run.
C10_NonPositiveCountRunsNothing ==
    (RecognisedHeader(hdr) /\ path # "none" /\ totalOps <= 0) =>
        ~BodyRan /\ started = <<>>

\* the induction value of the sequential loop's iteration k (from 0): the
\* start value after k evaluations of the increment expression
RECURSIVE SeqValAt(_, _)
SeqValAt(h, k) ==
    IF k = 0 THEN h.start
    ELSE IF h.incName = "i" THEN IncResult(h, SeqValAt(h, k - 1))
    ELSE SeqValAt(h, k - 1)

\* C11: when the computed iteration count is below the threshold no worker
\* thread is started; the calling thread enters the body for iteration 0, 1,
\* 2, ... in this order, and an iteration whose body fails is the last one
\* entered: the statement has then ended by that iteration's error.
C11_SequentialInOrder ==
    (path # "none" /\ totalOps < Threshold) =>
        /\ path = "seq" /\ threads = 0 /\ started = <<>>
        /\ \A w \in Workers : wpc[w] = "unspawned"
        /\ \A k \in 1..Len(seqTrace) :
              /\ seqTrace[k] = SeqValAt(hdr, k - 1)
              /\ seqTrace[k] \in failVals =>
                    /\ k = Len(seqTrace)
                    /\ pc = "raised"
                    /\ raised = BodyMsg(seqTrace[k])

C11_Witness ==
    /\ path = "seq" /\ totalOps < Threshold /\ pc = "raised"
    /\ Len(seqTrace) >= 2
    /\ seqTrace[Len(seqTrace)] \in failVals
    /\ raised = BodyMsg(seqTrace[Len(seqTrace)])

\* C12: on the parallel path the value an iteration reads for the induction
\* variable is start + index * step for the index it claimed, whatever the
\* other iterations have bound or assigned meanwhile; an iteration that
\* assigned to the variable reads its own value back; and the binding of the
\* same name in the enclosing scope and the one the setup made keep their
\* values.
C12_InductionVariablePrivate ==
    path = "par" =>
        /\ \A w \in Workers :
              /\ wpc[w] = "body" => IterGet(w) = CurrentI(widx[w])
              /\ wpc[w] = "body_end" =>
                    IterGet(w) = Written(CurrentI(widx[w]))
        /\ prevI = EnclosingI
        /\ loopI = startVal

C12_Witness ==
    /\ path = "par"
    /\ \E w1, w2 \in Workers :
          /\ wpc[w1] = "body_end" /\ iterI[w1] = <<Written(CurrentI(widx[w1]))>>
          /\ wpc[w2] = "body" /\ IterGet(w2) = CurrentI(widx[w2])
          /\ widx[w2] > widx[w1]
    /\ prevI = EnclosingI

\* no thread is executing an atomic built-in
NoAtomicRunning == \A w \in Workers : apc[w] = "idle"

\* C13: when atomic_store wrote v0 to a name and since then only atomic_add
\* and atomic_inc calls, made by the threads in any interleaving, wrote its
\* register, then once the calls have ended the register holds v0 plus the
\* sum of their increments, and an atomic_load that ends then has returned
\* exactly this value.
C13_NoLostUpdate ==
    \A n \in RegNames :
        (NoAtomicRunning /\ stored[n] # NoEntry) =>
            /\ atomicVars[n] = <<stored[n][1] + incSum[n]>>
            /\ (lastRet.op = "load" /\ lastRet.name = n) =>
                  lastRet.ret = <<stored[n][1] + incSum[n]>>

C13_Witness ==
    /\ NoAtomicRunning
    /\ stored["x"] # NoEntry /\ incCount["x"] >= 2
    /\ lastRet.op = "load" /\ lastRet.name = "x"
    /\ lastRet.ret = <<stored["x"][1] + incSum["x"]>>

\* C14 (as claimed): whenever no atomic built-in is executing, the global
\* scope binds every name whose register a built-in has written, and binds
\* it to the register's value.
C14_MirrorEqualsRegistry ==
    NoAtomicRunning =>
        \A n \in atomWritten : globalVals[n] = atomicVars[n]

\* the scopes of the chain that starts at scope e, and their distance from e
RECURSIVE ChainFrom(_, _)
ChainFrom(h, e) == IF e = 0 THEN <<>> ELSE <<e>> \o ChainFrom(h, h[e].enclosing)

\* the positions in the chain from e at which the name is bound
BoundAt(h, e, n) ==
    {i \in DOMAIN ChainFrom(h, e) : h[ChainFrom(h, e)[i]].values[n] # NoEntry}

\* the innermost scope of the chain from e that binds the name
Innermost(h, e, n) ==
    ChainFrom(h, e)[CHOOSE i \in BoundAt(h, e, n) :
                        \A j \in BoundAt(h, e, n) : i <= j]

\* C15: assign on a chain in which no scope binds the name throws and leaves
\* every table as it was; it never makes a binding.
C15_AssignNeverCreates ==
    (lastOp.op = "assign"
        /\ BoundAt(lastOp.before, lastOp.from, lastOp.name) = {}) =>
        /\ lastOp.failed
        /\ scopes = lastOp.before

C15_Witness ==
    /\ lastOp.op = "assign" /\ lastOp.failed
    /\ lastOp.from >= 2
    /\ BoundAt(lastOp.before, lastOp.from, lastOp.name) = {}
    /\ \E e \in DOMAIN scopes : scopes[e].values[lastOp.name] # NoEntry
    /\ scopes = lastOp.before

\* C16: define writes the binding of the name in the table of the scope it
\* is called on, new or in place of the one there, and changes no other
\* entry of any table, also when an enclosing scope binds the name.
C16_DefineWritesOwnTable ==
    lastOp.op = "define" =>
        /\ scopes[lastOp.from].values[lastOp.name] = lastOp.val
        /\ \A e \in DOMAIN scopes, n \in Names :
              (e # lastOp.from \/ n # lastOp.name) =>
                  scopes[e].values[n] = lastOp.before[e].values[n]
        /\ \A e \in DOMAIN scopes :
              scopes[e].enclosing = lastOp.before[e].enclosing
        /\ DOMAIN scopes = DOMAIN lastOp.before

C16_Witness ==
    /\ lastOp.op = "define" /\ lastOp.from >= 2
    /\ scopes[lastOp.from].values[lastOp.name] = lastOp.val
    /\ \E e \in 1..(lastOp.from - 1) :
          /\ scopes[e].values[lastOp.name] \notin {NoEntry, lastOp.val}
          /\ scopes[e].values[lastOp.name] = lastOp.before[e].values[lastOp.name]

\* C17: on a chain that binds the name, get returns the value of the
\* innermost scope that binds it, and assign writes that scope's binding and
\* leaves every other binding, of this name in outer scopes and of any other
\* name, as it was.
C17_InnermostBinding ==
    (lastOp.op \in {"get", "assign"}
        /\ BoundAt(lastOp.before, lastOp.from, lastOp.name) # {}) =>
        LET s == Innermost(lastOp.before, lastOp.from, lastOp.name)
        IN /\ ~lastOp.failed
           /\ lastOp.op = "get" =>
                 /\ lastOp.val = lastOp.before[s].values[lastOp.name]
                 /\ scopes = lastOp.before
           /\ lastOp.op = "assign" =>
                 /\ scopes[s].values[lastOp.name] = lastOp.val
                 /\ \A e \in DOMAIN scopes, n \in Names :
                       (e # s \/ n # lastOp.name) =>
                           scopes[e].values[n] = lastOp.before[e].values[n]

C17_Witness ==
    /\ lastOp.op = "assign" /\ ~lastOp.failed
    /\ Cardinality(BoundAt(lastOp.before, lastOp.from, lastOp.name)) >= 2
    /\ LET s == Innermost(lastOp.before, lastOp.from, lastOp.name)
       IN /\ s < lastOp.from
          /\ scopes[s].values[lastOp.name] = lastOp.val
          /\ lastOp.before[s].values[lastOp.name] # lastOp.val
          /\ \E e \in 1..(s - 1) :
                scopes[e].values[lastOp.name] \notin {NoEntry, lastOp.val}

\* C18: when a Block that declared the variable ends, by any path, a
\* reference to the variable resolves to the binding it resolved to before
\* the Block was entered (to none if there was none), and that binding has
\* the value it had then unless it was assigned meanwhile.
C18_ShadowEndsWithBlock ==
    (lastOp.op = "exit" /\ lastOp.noted.kind = "block"
        /\ lastOp.noted.redeclared) =>
        /\ Resolve(scopes, current, "x") = lastOp.noted.seenScope
        /\ ~lastOp.noted.dirty =>
              EnvGet(scopes, current, "x") = lastOp.noted.seenVal

C18_Witness ==
    /\ lastOp.op = "exit" /\ lastOp.noted.kind = "block"
    /\ lastOp.noted.redeclared /\ ~lastOp.noted.dirty
    /\ lastOp.noted.seenScope # 0
    /\ Resolve(scopes, current, "x") = lastOp.noted.seenScope
    /\ EnvGet(scopes, current, "x") = lastOp.noted.seenVal

\* C19: when an activation of executeBlock (a Block or a function body) has
\* ended, by normal completion, by an error or by a Return, the current
\* scope is the one that was current when it was entered.
C19_ScopeRestored ==
    lastOp.op = "exit" => current = lastOp.noted.previous

C19_Witness ==
    /\ lastOp.op = "exit" /\ lastOp.name = "error"
    /\ lastOp.noted.kind = "call"
    /\ frames # <<>>
    /\ current = lastOp.noted.previous
    /\ current # 1

\* C20: the scope a function body runs in is chained to the scope the
\* function captured; a reference to the variable made in the body, when the
\* call's own scope does not bind it, gives what the captured scope's chain
\* gives (an error when that chain does not bind it), whatever the caller's
\* scope binds.
C20_CallScopeChainsToClosure ==
    /\ \A i \in DOMAIN frames :
          frames[i].kind = "call" =>
              scopes[frames[i].blockEnv].enclosing = frames[i].closure
    /\ (/\ frames # <<>> /\ Top.kind = "call"
        /\ lastOp.op = "get" /\ lastOp.name = "x"
        /\ lastOp.from = Top.blockEnv
        /\ scopes[Top.blockEnv].values["x"] = NoEntry) =>
           /\ lastOp.val = EnvGet(scopes, Top.closure, "x")
           /\ lastOp.failed = (EnvGet(scopes, Top.closure, "x") = NoEntry)

C20_Witness ==
    /\ frames # <<>> /\ Top.kind = "call"
    /\ lastOp.op = "get" /\ lastOp.name = "x" /\ lastOp.from = Top.blockEnv
    /\ scopes[Top.blockEnv].values["x"] = NoEntry
    /\ Top.closure # Top.previous
    /\ EnvGet(scopes, Top.previous, "x") # NoEntry
    /\ EnvGet(scopes, Top.closure, "x") # NoEntry
    /\ EnvGet(scopes, Top.previous, "x") # EnvGet(scopes, Top.closure, "x")
    /\ lastOp.val = EnvGet(scopes, Top.closure, "x")

\* the callee reads or assigns the variable from its own scope, which does
\* not bind it
InCallee ==
    /\ frames # <<>> /\ Top.kind = "call"
    /\ current = Top.blockEnv
    /\ scopes[current].values["x"] = NoEntry

\* C21: a function shares the scope it was declared in: a read of an outer
\* variable in the callee gives the value the variable has in the declaring
\* scope at the time of the read (so an assignment made after the
\* declaration is seen), and an assignment in the callee changes the binding
\* the declaring scope resolves the variable to.
C21_ClosureByReference ==
    /\ [](InCallee /\ lastOp.op = "get" /\ lastOp.name = "x"
            /\ lastOp.from = current =>
              lastOp.val = EnvGet(scopes, Top.definer, "x"))
    /\ [][(/\ InCallee /\ mode = "run" /\ mode' = "run"
           /\ current' = current /\ Len(frames') = Len(frames)
           /\ Len(scopes') = Len(scopes)
           /\ scopes'[current] = scopes[current]
           /\ scopes' # scopes) =>
             LET t == Resolve(scopes, Top.definer, "x")
             IN /\ t # 0
                /\ scopes'[t].values["x"] # scopes[t].values["x"]
                /\ EnvGet(scopes', Top.definer, "x") = scopes'[t].values["x"]
          ]_vars

\* the function was declared before the block was entered, the block
\* assigned the variable and then called the function, which reads the
\* value assigned
C21_Witness ==
    /\ Len(frames) = 2 /\ frames[1].kind = "block" /\ InCallee
    /\ Top.definer = frames[1].previous
    /\ frames[1].dirty /\ ~frames[1].redeclared
    /\ lastOp.op = "get" /\ lastOp.name = "x" /\ lastOp.from = current
    /\ lastOp.val # NoEntry
    /\ lastOp.val # frames[1].seenVal
    /\ lastOp.val = EnvGet(scopes, Top.definer, "x")

\* C22: a call of a name the built-in table has yields what the built-in
\* yields for the arguments (or fails as the built-in fails), enters no
\* function body and leaves every scope as it was, whatever the scopes of
\* the current chain bind the name to.
C22_BuiltinPrecedence ==
    (lastOp.op = "call" /\ lastOp.name \in builtins) =>
        /\ lastOp.val = BuiltinCall(lastOp.name, lastOp.noted.args)
        /\ lastOp.failed = (lastOp.val = NoEntry)
        /\ scopes = lastOp.before
        /\ current = lastOp.from
        /\ Len(frames) = lastOp.noted.depth

C22_Witness ==
    /\ lastOp.op = "call" /\ lastOp.name \in builtins
    /\ EnvGet(scopes, current, lastOp.name) # NoEntry
    /\ EnvGet(scopes, current, lastOp.name)[1].type = "FUNCTION"
    /\ lastOp.noted.args = <<1>>
    /\ lastOp.val = <<Number(1)>>
    /\ scopes = lastOp.before

\* the value the callee of the last call was bound to when the call was made
CalleeWas == EnvGet(lastOp.before, lastOp.from, lastOp.name)

\* C23: a call of a user function with a number of arguments other than the
\* number of its parameters, and a call of a value that is no function,
\* fail; no scope is created, no body is entered, and the current scope and
\* all bindings are as before.
C23_BadCallHasNoEffect ==
    (/\ lastOp.op = "call" /\ lastOp.name \notin builtins
     /\ CalleeWas # NoEntry
     /\ \/ CalleeWas[1].type # "FUNCTION"
        \/ CalleeWas[1].arity # Len(lastOp.noted.args)) =>
        /\ lastOp.failed /\ mode = "error"
        /\ scopes = lastOp.before
        /\ current = lastOp.from
        /\ Len(frames) = lastOp.noted.depth

C23_Witness ==
    /\ lastOp.op = "call" /\ lastOp.name \notin builtins
    /\ CalleeWas # NoEntry
    /\ CalleeWas[1].type = "FUNCTION"
    /\ CalleeWas[1].arity # Len(lastOp.noted.args)
    /\ lastOp.failed /\ mode = "error"
    /\ frames # <<>>
    /\ scopes = lastOp.before

\* C24: a Return ends the innermost call in progress and no more: that call
\* yields the value the Return carried (Nil for a bare return) and its
\* caller goes on; while the Return is in flight the innermost call is the
\* one whose body made it; a call whose body ends without Return yields Nil.
C24_ReturnEndsNearestCall ==
    /\ (lastOp.op = "exit" /\ lastOp.noted.kind = "call"
           /\ lastOp.name = "return") =>
          /\ mode = "run"
          /\ lastOp.noted.ret # NoEntry
          /\ lastOp.val = lastOp.noted.ret
    /\ (lastOp.op = "exit" /\ lastOp.noted.kind = "call"
           /\ lastOp.name = "normal") =>
          /\ mode = "run"
          /\ lastOp.val = <<Nil>>
    /\ mode = "return" =>
          \A i \in DOMAIN frames :
              (/\ frames[i].kind = "call"
               /\ \A j \in DOMAIN frames : j > i => frames[j].kind = "block")
                  => frames[i].ret = <<retValue>>

C24_Witness ==
    /\ lastOp.op = "exit" /\ lastOp.noted.kind = "call"
    /\ lastOp.name = "return"
    /\ lastOp.noted.through > 0
    /\ lastOp.val = <<Number(1)>>
    /\ mode = "run"

\* C27: after clear() nothing that was bound is bound, the current scope is
\* the new, empty global scope, and the built-in table has every built-in.
C27_ClearResets ==
    lastOp.op = "clear" =>
        /\ scopes = <<Scope(0)>>
        /\ current = 1
        /\ \A n \in Names : EnvGet(scopes, current, n) = NoEntry
        /\ \A n \in BuiltinNames : CalleeIsBuiltin(n)

C27_Witness ==
    /\ lastOp.op = "clear"
    /\ FunNames \cup BuiltinNames \subseteq lastOp.noted
    /\ lastOp.from # 1
    /\ scopes = <<Scope(0)>> /\ current = 1

\* C25: a Return made by the body of the statement is no fault on either
\* path: no worker records it as an error, and what leaves the statement is
\* the Return itself, not a RuntimeError.
C25_ReturnIsNoFault ==
    bodyThrows = "ReturnException" =>
        /\ ~hasError
        /\ (pc = "raised" /\ raised.kind = "body") =>
              LeavesAs = "ReturnException"

C26_ExecuteStopsAtFirstFailure ==
    /\ \A i \in DOMAIN trace : trace[i].at = i
    /\ \A i \in DOMAIN trace : trace[i].failed => i = Len(trace)
    /\ mode = "run" =>
          \A n \in Names :
             made[n] # NoEntry => EnvGet(scopes, current, n) = made[n]

\* the part of C26 about the order of the statements and the stop
C26_InOrderUntilFailure ==
    /\ \A i \in DOMAIN trace : trace[i].at = i
    /\ \A i \in DOMAIN trace : trace[i].failed => i = Len(trace)

\* C29: v in arr is true exactly when v == e is true of some element e of
\* arr, by the rule of the == operator.
C29_InAgreesWithEquals ==
    (lastOp.op = "in" /\ arrays[1].type = "ARRAY") =>
       lastOp.val = <<\E i \in DOMAIN arrays[1].elems :
                         ApplyBinaryOp("==", retValue, arrays[1].elems[i])
                            = <<TRUE>>>>

\* C30: the mutex of a scope is held for one get or one assign only, so
\* a worker's x += 1 is not atomic; x always holds the declared value or a
\* value a worker assigned, and once the workers have run the body n times
\* in all, x has increased by at least 1 and at most n.
C30_CompoundUpdateNotAtomic ==
    LET x == scopes[1].values["x"][1].num
        x0 == made["x"][1].num
        RECURSIVE Sum(_)
        Sum(S) == IF S = {} THEN 0
                  ELSE LET w == CHOOSE v \in S : TRUE
                       IN updates[w] + Sum(S \ {w})
        n == Sum(Workers)
    IN /\ envMutex # 0 => lastOp.op = "lock" /\ lastOp.from = envMutex
       /\ x = x0 \/ x \in written
       /\ n = 0 => x = x0
       /\ n > 0 => x0 + 1 <= x /\ x <= x0 + n

\* two workers have run x += 1 once each, and x has increased by 1
C30_Witness ==
    /\ updates[1] = 1 /\ updates[2] = 1
    /\ \A w \in Workers : cpc[w] = "get"
    /\ \A w \in Workers \ {1, 2} : updates[w] = 0
    /\ scopes[1].values["x"][1].num = made["x"][1].num + 1

\* C31: once the statement has taken the sequential or the parallel path,
\* the right operand of its condition has been evaluated exactly once.
C31_BoundEvaluatedOnce ==
    path \in {"seq", "par"} => boundEvals = 1

\* the part of C31 about the parallel path
C31_BoundEvaluatedOnceParallel ==
    path = "par" => boundEvals = 1

\* C38: once the statement has taken the sequential or the parallel path,
\* the initializer has been executed exactly once.
C38_InitExecutedOnce ==
    path \in {"seq", "par"} => initRuns = 1

\* the part of C38 about the parallel path
C38_InitExecutedOnceParallel ==
    path = "par" => initRuns = 1

\* C37: when a call of an atomic built-in fails, the register of its name
\* holds the value it held when the call took the registry's lock.
C37_FailedCallKeepsRegister ==
    [][\A w \in Workers :
          (apc[w] = "mirror" /\ apc'[w] = "idle" /\ lastRet'.failed) =>
             (IF atomicVars'[acall[w].name] = NoEntry THEN 0
              ELSE atomicVars'[acall[w].name][1]) = acall[w].tmp]_vars

\* C40: a call of atomic_cas returns true and leaves the register and its
\* mirror at the new value when the register held the expected value as
\* the call took the lock; otherwise it returns false and leaves the
\* register as it was.
C40_CasSwapsIffExpected ==
    [][\A w \in Workers :
          (acall[w].op = "cas" /\ apc[w] # "idle" /\ apc'[w] = "idle") =>
             LET c == acall[w]
                 old == IF apc[w] = "locked" THEN RegRead(c.name) ELSE c.tmp
                 new == IF atomicVars'[c.name] = NoEntry THEN 0
                        ELSE atomicVars'[c.name][1]
             IN IF old = c.expected
                THEN /\ ~lastRet'.failed /\ lastRet'.ret = <<TRUE>>
                     /\ new = c.val /\ globalVals'[c.name] = <<c.val>>
                ELSE /\ ~lastRet'.failed /\ lastRet'.ret = <<FALSE>>
                     /\ new = old /\ globalVals' = globalVals]_vars

\* the part of C40 about names the global scope binds
C40_CasSwapsIffExpectedWhenBound ==
    [][\A w \in Workers :
          (acall[w].op = "cas" /\ apc[w] # "idle" /\ apc'[w] = "idle"
           /\ globalVals[acall[w].name] # NoEntry) =>
             LET c == acall[w]
                 old == IF apc[w] = "locked" THEN RegRead(c.name) ELSE c.tmp
                 new == IF atomicVars'[c.name] = NoEntry THEN 0
                        ELSE atomicVars'[c.name][1]
             IN IF old = c.expected
                THEN /\ ~lastRet'.failed /\ lastRet'.ret = <<TRUE>>
                     /\ new = c.val /\ globalVals'[c.name] = <<c.val>>
                ELSE /\ ~lastRet'.failed /\ lastRet'.ret = <<FALSE>>
                     /\ new = old /\ globalVals' = globalVals]_vars

\* C39: right after clear() the register of every name reads 0, whatever
\* was stored before.
C39_ClearResetsRegisters ==
    [][(lastOp'.op = "clear" /\ apc' = apc) =>
          \A n \in RegNames :
             atomicVars'[n] = NoEntry \/ atomicVars'[n][1] = 0]_vars

\* C35: outside execute(), after a call that returned or that raised an
\* error, the current scope is the global scope.
C35_GlobalScopeAfterExecute ==
    pos = 0 => current = 1

\* C32: a and b evaluates b only when a is truthy, a or b only when a is
\* not, and the result is the boolean and / or of the operands' truthiness.
C32_ShortCircuit ==
    LET a == IsTruthy(retValue)
        b == IsTruthy(arrays[1])
        right == \E i \in DOMAIN lastOp.noted : lastOp.noted[i] = "right"
    IN /\ lastOp.op = "and" => (right <=> a) /\ lastOp.val = <<a /\ b>>
       /\ lastOp.op = "or" => (right <=> ~a) /\ lastOp.val = <<a \/ b>>

\* a and b with a not truthy and b truthy: b was not evaluated
C32_Witness ==
    /\ lastOp.op = "and" /\ lastOp.noted = <<"left">>
    /\ ~IsTruthy(retValue) /\ IsTruthy(arrays[1])
    /\ lastOp.val = <<FALSE>>

\* C33: an index read or write of an array or string of n elements acts
\* on position i when 0 <= i < n and on position i + n when -n <= i < 0;
\* with any other index it fails as out of bounds and the elements stay as
\* they were; on a value of another kind it fails as not indexable.
C33_IndexPositions ==
    lastOp.op \in {"index", "indexAssign"} =>
       LET got == EnvGet(scopes, current, lastOp.name)
           i == lastOp.noted
       IN IF got = NoEntry THEN lastOp.failed
          ELSE IF got[1].type \notin {"ARRAY", "STRING"}
          THEN lastOp.failed /\ lastOp.val = <<"NotIndexable">>
          ELSE LET e == lastOp.before[1]
                   n == Len(e)
                   now == arrays[got[1].num]
                   p == IF i < 0 THEN i + n + 1 ELSE i + 1
               IN IF 0 - n <= i /\ i < n
                  THEN /\ ~lastOp.failed
                       /\ lastOp.op = "index" =>
                             lastOp.val = <<e[p]>> /\ now = e
                       /\ lastOp.op = "indexAssign" =>
                             now = [e EXCEPT ![p] = lastOp.val[1]]
                  ELSE /\ lastOp.failed
                       /\ lastOp.val = <<"IndexOutOfBounds">>
                       /\ now = e

\* a read with index -2 of a string of two different characters gave the
\* first one
C33_Witness ==
    /\ lastOp.op = "index" /\ lastOp.noted = -2 /\ ~lastOp.failed
    /\ EnvGet(scopes, current, "x")[1].type = "STRING"
    /\ lastOp.before = <<<<2, 1>>>>
    /\ lastOp.val = <<2>>

\* C34: when a call fails because its callee is undefined, is no function
\* or has another number of parameters, all its arguments have been
\* evaluated from left to right before: each name holds the value of the
\* last argument that assigned to it, the other names hold what they held,
\* and the failure is the one that the callee's value after the arguments
\* gives.
C34_ArgumentsBeforeCallee ==
    (lastOp.op = "callArguments" /\
     lastOp.noted.why \in {"Undefined", "NotFunction", "ArgumentCount"}) =>
       LET exprs == lastOp.noted.exprs
           got == EnvGet(scopes, current, lastOp.name)
       IN /\ current = lastOp.from /\ Len(scopes) = Len(lastOp.before)
          /\ \A nm \in Names :
                LET at == {i \in DOMAIN exprs : exprs[i].name = nm}
                IN EnvGet(scopes, current, nm) =
                      IF at = {} THEN EnvGet(lastOp.before, current, nm)
                      ELSE <<Number(exprs[CHOOSE i \in at :
                                             \A j \in at : j <= i].val)>>
          /\ lastOp.noted.why = "Undefined" <=> got = NoEntry
          /\ lastOp.noted.why = "NotFunction" <=>
                (got # NoEntry /\ got[1].type # "FUNCTION")
          /\ lastOp.noted.why = "ArgumentCount" <=>
                (got # NoEntry /\ got[1].type = "FUNCTION" /\
                 got[1].arity # Len(exprs))

\* f(x = 2, f = 1) was called while f was a function and x held 1:
\* the call failed because f is no function any more, and x
\* holds 2
C34_Witness ==
    /\ lastOp.op = "callArguments" /\ lastOp.name = "f"
    /\ lastOp.noted.why = "NotFunction"
    /\ lastOp.noted.exprs = <<[name |-> "x", val |-> 2],
                              [name |-> "f", val |-> 1]>>
    /\ EnvGet(lastOp.before, current, "f")[1].type = "FUNCTION"
    /\ EnvGet(lastOp.before, current, "x") = <<Number(1)>>
    /\ EnvGet(scopes, current, "x") = <<Number(2)>>

\* C36: workers that run scope operations and atomic built-ins cannot
\* deadlock: no thread holds two scope locks at once, no thread holds a
\* scope lock together with the registry lock unless it took the registry
\* lock first (it is then at the mirrored write), and whenever no thread
\* can take a step, every thread has ended its work and every lock is free.
C36_NoDeadlock ==
    /\ \A w \in Workers : ~(iterMutex[w] /\ envMutex = w)
    /\ \A w \in Workers :
          atomicMutex = w => ~iterMutex[w] /\ envMutex # w /\ cpc[w] = "get"
    /\ ~ENABLED LockNext =>
          /\ \A w \in Workers : apc[w] = "idle" /\ cpc[w] = "get"
          /\ atomicMutex = 0 /\ envMutex = 0
          /\ \A w \in Workers : ~iterMutex[w]

\* a worker waits with the registry lock at the mirrored write for the
\* mutex of the global scope, which another worker holds for its lookup
C36_Witness ==
    \E w, v \in Workers :
       /\ apc[w] = "mirror" /\ atomicMutex = w
       /\ envMutex = v /\ cpc[v] = "enclosingLocked"

====
